---------------------------- MODULE Spec2Model ----------------------------
(***************************************************************************)
(* Weekly statistics of the workout service (src/src/services/             *)
(* workoutService.ts): convertToDate, getStartOfWeekJST, resolveMenuType,  *)
(* computeVolumeForExercise, getThisWeeksStats and getLastWeeksStats, run  *)
(* against a clock and the user's workouts collection.                     *)
(*                                                                         *)
(* Representation.  A JavaScript time value (milliseconds since the epoch) *)
(* does not fit a 32-bit integer, so every millisecond quantity is kept    *)
(* exactly as a pair [d, ms] that stands for d * MsPerDay + ms with        *)
(* 0 <= ms < MsPerDay.  A Date is such a pair plus a validity flag (an     *)
(* Invalid Date has the time value NaN).  Strings that the code inspects   *)
(* character by character (names) are sequences of one-character strings.  *)
(***************************************************************************)
EXTENDS Integers, Sequences, FiniteSets, TLC

VARIABLES clock, store, call, probe

vars == <<clock, store, call, probe>>

---------------------------------------------------------------------------
(* Exact millisecond arithmetic on pairs [d, ms].                          *)

MsPerSecond == 1000 * 1
SecondsPerDay == 24 * 3600
MsPerDay == SecondsPerDay * MsPerSecond
MsPerHour == 3600 * MsPerSecond

\* The pair of a time given as whole days plus milliseconds (any sign).
Ms(d, ms) == [d |-> d + (ms \div MsPerDay), ms |-> ms % MsPerDay]

\* a < b, a <= b on pairs.
MsLess(a, b) == a.d < b.d \/ (a.d = b.d /\ a.ms < b.ms)
MsLeq(a, b) == a = b \/ MsLess(a, b)

\* a + b on pairs.
MsAdd(a, b) == Ms(a.d + b.d, a.ms + b.ms)

\* n * 1000 for a pair n (MsPerDay = SecondsPerDay * 1000).
MsTimes1000(n) ==
    [d |-> n.d * 1000 + (n.ms \div SecondsPerDay),
     ms |-> (n.ms % SecondsPerDay) * 1000]

\* s * 1000 for a number of seconds s that fits an integer.
SecondsToMs(s) ==
    [d |-> s \div SecondsPerDay, ms |-> (s % SecondsPerDay) * 1000]

---------------------------------------------------------------------------
(* The built-in Date: time values, UTC calendar fields (ECMAScript         *)
(* DayFromYear / YearFromTime / MonthFromTime / DateFromTime / MakeDay).   *)

InvalidDate == [valid |-> FALSE, d |-> 0, ms |-> 0]

\* new Date(value) for a finite integral time value: TimeClip keeps it
\* when |value| <= 8.64e15 ms, which is 100,000,000 days.
MaxDateDays == 100000 * 1000
NewDate(t) ==
    IF \/ t.d < -MaxDateDays
       \/ t.d > MaxDateDays
       \/ (t.d = MaxDateDays /\ t.ms > 0)
    THEN InvalidDate
    ELSE [valid |-> TRUE, d |-> t.d, ms |-> t.ms]

\* getTime() of a valid Date.
TimeOf(date) == [d |-> date.d, ms |-> date.ms]

\* date1 < date2, date1 >= date2 as the relational operators compute them
\* on Dates (ToNumber of each side; any comparison with NaN is false).
DateLess(a, b) == a.valid /\ b.valid /\ MsLess(TimeOf(a), TimeOf(b))
DateGeq(a, b) == a.valid /\ b.valid /\ MsLeq(TimeOf(b), TimeOf(a))

DayFromYear(y) ==
    365 * (y - 1970) + ((y - 1969) \div 4) - ((y - 1901) \div 100)
        + ((y - 1601) \div 400)

YearFromDay(day) ==
    CHOOSE y \in (1969 + (day \div 366))..(1971 + (day \div 365)) :
        DayFromYear(y) <= day /\ day < DayFromYear(y + 1)

InLeapYear(y) == DayFromYear(y + 1) - DayFromYear(y) = 366

\* Days before month m (0..11, and 12 for the whole year) in a common year.
CumulativeDays == <<0, 31, 59, 90, 120, 151, 181, 212, 243, 273, 304, 334, 365>>
DaysBeforeMonth(y, m) ==
    CumulativeDays[m + 1] + (IF m >= 2 /\ InLeapYear(y) THEN 1 ELSE 0)

\* The month (0..11) of day w (0-based) within year y.
MonthInYear(y, w) ==
    CHOOSE m \in 0..11 : DaysBeforeMonth(y, m) <= w /\ w < DaysBeforeMonth(y, m + 1)

\* The UTC calendar fields of a day number: year, month (0..11) and day of
\* the month (1..31).
CivilOfMonth(y, m, w) == [year |-> y, month |-> m, date |-> w - DaysBeforeMonth(y, m) + 1]
CivilOfYear(y, w) == CivilOfMonth(y, MonthInYear(y, w), w)
CivilInYear(y, day) == CivilOfYear(y, day - DayFromYear(y))
Civil(day) == CivilInYear(YearFromDay(day), day)

\* getUTCDate(): the day of the month, 1..31.
getUTCDate(date) == Civil(date.d).date

\* getUTCDay(): 0 = Sunday .. 6 = Saturday (1970-01-01 was a Thursday).
getUTCDay(date) == (date.d + 4) % 7

\* MakeDay(year, month, dt) for month in 0..11 and any integer dt.
MakeDay(y, m, dt) == DayFromYear(y) + DaysBeforeMonth(y, m) + dt - 1

\* setUTCDate(dt): same year, month and time within the day; day of month
\* dt, which may lie outside the month (0, negative, past the end).
SetDateIn(civil, ms, dt) == NewDate([d |-> MakeDay(civil.year, civil.month, dt), ms |-> ms])
setUTCDate(date, dt) ==
    IF ~date.valid THEN InvalidDate ELSE SetDateIn(Civil(date.d), date.ms, dt)

\* date.setUTCDate(date.getUTCDate() + delta).
ShiftDateIn(civil, ms, delta) == SetDateIn(civil, ms, civil.date + delta)
ShiftUTCDate(date, delta) ==
    IF ~date.valid THEN InvalidDate ELSE ShiftDateIn(Civil(date.d), date.ms, delta)

\* setUTCHours(0, 0, 0, 0).
setUTCHoursZero(date) ==
    IF ~date.valid THEN InvalidDate ELSE NewDate([d |-> date.d, ms |-> 0])

\* toISOString().split('T')[0]: the UTC calendar date <<year, month, day>>
\* (month 1..12).  toISOString throws a RangeError on an Invalid Date; the
\* callers test date.valid first.
IsoDayOf(civil) == <<civil.year, civil.month + 1, civil.date>>
IsoDay(date) == IsoDayOf(Civil(date.d))

\* The Date of a UTC calendar date and time of day.
UTC(y, mo, dd, h, mi, s, ms) ==
    NewDate([d |-> MakeDay(y, mo - 1, dd),
             ms |-> ((h * 60 + mi) * 60 + s) * MsPerSecond + ms])

---------------------------------------------------------------------------
(* JavaScript values as the code meets them in loosely typed documents.    *)
(* [t, n, s]: t is the kind, n the value of a finite integral number, s    *)
(* the characters of a string.                                             *)

Undefined == [t |-> "undefined", n |-> 0, s |-> <<>>]
Null == [t |-> "null", n |-> 0, s |-> <<>>]
NaN == [t |-> "NaN", n |-> 0, s |-> <<>>]
Infinity == [t |-> "Infinity", n |-> 0, s |-> <<>>]
Num(k) == [t |-> "number", n |-> k, s |-> <<>>]
Str(chars) == [t |-> "string", n |-> 0, s |-> chars]

\* typeof v === 'number' (NaN and Infinity are numbers).
IsTypeofNumber(v) == v.t \in {"number", "NaN", "Infinity"}

\* v ?? w: w when v is null or undefined.
Coalesce(v, w) == IF v.t \in {"undefined", "null"} THEN w ELSE v

\* ToBoolean(v) is false.
Falsy(v) ==
    \/ v.t \in {"undefined", "null", "NaN"}
    \/ (v.t = "number" /\ v.n = 0)
    \/ (v.t = "string" /\ v.s = <<>>)

Digits == <<"0", "1", "2", "3", "4", "5", "6", "7", "8", "9">>
IsDigit(c) == \E i \in 1..10 : Digits[i] = c
DigitValue(c) == (CHOOSE i \in 1..10 : Digits[i] = c) - 1
IsWhite(c) == c = " "

\* String.prototype.trim on a character sequence.
RECURSIVE TrimStart(_)
TrimStart(s) ==
    IF s # <<>> /\ IsWhite(Head(s)) THEN TrimStart(Tail(s)) ELSE s
RECURSIVE TrimEnd(_)
TrimEnd(s) ==
    IF s # <<>> /\ IsWhite(s[Len(s)])
    THEN TrimEnd(SubSeq(s, 1, Len(s) - 1))
    ELSE s
trim(s) == TrimEnd(TrimStart(s))

\* String.prototype.includes on character sequences.
includes(s, key) ==
    \E i \in 1..(Len(s) - Len(key) + 1) : SubSeq(s, i, i + Len(key) - 1) = key

RECURSIVE DigitsValue(_, _)
DigitsValue(s, acc) ==
    IF s = <<>> THEN acc ELSE DigitsValue(Tail(s), acc * 10 + DigitValue(Head(s)))

\* Number(string): the trimmed string read as a decimal integer, the empty
\* string as 0, anything else as NaN (the model's strings hold no fraction,
\* exponent or radix prefix).
UnsignedToNumber(ds, sign) ==
    IF ds # <<>> /\ \A i \in 1..Len(ds) : IsDigit(ds[i])
    THEN Num(sign * DigitsValue(ds, 0))
    ELSE NaN
TrimmedToNumber(b) ==
    IF b = <<>> THEN Num(0)
    ELSE IF Head(b) = "-" THEN UnsignedToNumber(Tail(b), -1)
    ELSE UnsignedToNumber(b, 1)
StringToNumber(s) == TrimmedToNumber(trim(s))

\* Number(v).
ToNumber(v) ==
    CASE v.t = "undefined" -> NaN
      [] v.t = "null" -> Num(0)
      [] v.t = "string" -> StringToNumber(v.s)
      [] OTHER -> v

\* Number.isFinite(v) for v a result of ToNumber.
IsFinite(v) == v.t = "number"

\* parseNumber (workoutService.ts 55-58).
FiniteOrZero(parsed) == IF IsFinite(parsed) THEN parsed.n ELSE 0
parseNumber(value) == FiniteOrZero(ToNumber(value))

---------------------------------------------------------------------------
(* FirestoreTimestampLike: what a document's date field may hold.          *)
(* k is the kind; the other fields are read only for their kind:           *)
(*   "toDateObject"  an object with a toDate method (a store Timestamp of  *)
(*                   seconds/nanoseconds when toDate is "value"; toDate    *)
(*                   "invalid" returns an Invalid Date, "throws" throws)   *)
(*   "object"        a plain object without toDate; hasSeconds tells       *)
(*                   whether it has the key seconds                        *)
(*   "string"        str is the text: an ISO 8601 UTC string of the given  *)
(*                   fields (fmt "iso") or other text (fmt "text")         *)
(*   "number"        num.t is "number" (value num.v, a [d, ms] pair),      *)
(*                   "NaN", "Infinity" or "-Infinity"                      *)
(*   "Date"          a native Date (date)                                  *)
(*   "null", "undefined"                                                   *)

NoStr == [fmt |-> "text", y |-> 0, mo |-> 0, dd |-> 0, h |-> 0, mi |-> 0, s |-> 0, ms |-> 0]
NoNum == [t |-> "NaN", v |-> [d |-> 0, ms |-> 0]]
TsBlank ==
    [k |-> "undefined", toDate |-> "value", hasSeconds |-> FALSE,
     seconds |-> Undefined, nanoseconds |-> Undefined,
     str |-> NoStr, num |-> NoNum, date |-> InvalidDate]

TsUndefined == TsBlank
TsNull == [TsBlank EXCEPT !.k = "null"]
TsTimestamp(sec, nano) ==
    [TsBlank EXCEPT !.k = "toDateObject", !.hasSeconds = TRUE,
                    !.seconds = Num(sec), !.nanoseconds = Num(nano)]
TsToDate(behaviour) == [TsBlank EXCEPT !.k = "toDateObject", !.toDate = behaviour]
TsObject(sec, nano) ==
    [TsBlank EXCEPT !.k = "object", !.hasSeconds = TRUE,
                    !.seconds = sec, !.nanoseconds = nano]
TsEmptyObject == [TsBlank EXCEPT !.k = "object"]
TsIso(y, mo, dd, h, mi, s, ms) ==
    [TsBlank EXCEPT !.k = "string",
        !.str = [fmt |-> "iso", y |-> y, mo |-> mo, dd |-> dd, h |-> h,
                 mi |-> mi, s |-> s, ms |-> ms]]
TsText == [TsBlank EXCEPT !.k = "string"]
TsNumber(v) == [TsBlank EXCEPT !.k = "number", !.num = [t |-> "number", v |-> v]]
TsNonFinite(t) == [TsBlank EXCEPT !.k = "number", !.num = [NoNum EXCEPT !.t = t]]
TsDate(date) == [TsBlank EXCEPT !.k = "Date", !.date = date]

\* The encodings of a valid Date d: toISOString(), getTime(), seconds.
IsoOfDay(day, ms) ==
    TsIso(day[1], day[2], day[3],
          ms \div MsPerHour, (ms \div (60 * MsPerSecond)) % 60,
          (ms \div MsPerSecond) % 60, ms % MsPerSecond)
IsoOf(d) == IsoOfDay(IsoDay(d), d.ms)
MillisOf(d) == TsNumber(TimeOf(d))
\* Whole epoch seconds of d (fits an integer until 2038).
EpochSeconds(d) == d.d * SecondsPerDay + d.ms \div MsPerSecond
SecondsOf(d) == TsNumber(Ms(0, EpochSeconds(d)))
TimestampOf(d) == TsTimestamp(EpochSeconds(d), (d.ms % MsPerSecond) * 1000000)

\* new Date(string): an ISO string with in-range fields denotes its UTC
\* instant; every other string gives an Invalid Date.
DateParse(str) ==
    IF /\ str.fmt = "iso"
       /\ str.mo \in 1..12 /\ str.dd \in 1..31
       /\ str.h \in 0..23 /\ str.mi \in 0..59 /\ str.s \in 0..59
       /\ str.ms \in 0..999
    THEN UTC(str.y, str.mo, str.dd, str.h, str.mi, str.s, str.ms)
    ELSE InvalidDate

\* Timestamp.toDate(): new Date(seconds * 1000 + nanoseconds / 1e6).
NanosPerMs == 1000 * 1000
TimestampToDate(ts) ==
    NewDate(MsAdd(SecondsToMs(ts.seconds.n),
                  Ms(0, ts.nanoseconds.n \div NanosPerMs)))

\* new Date(t.seconds * 1000 + (t.nanoseconds || 0) / 1000000) of a plain
\* object (workoutService.ts 465): NaN unless both operands are finite;
\* the Date constructor drops the fraction of a millisecond.
TruncatedSum(whole, nano) ==
    IF whole.d < 0 /\ nano % NanosPerMs # 0
    THEN NewDate(MsAdd(whole, Ms(0, 1)))
    ELSE NewDate(whole)
SecondsAndNanosToDate(sec, nano) ==
    IF ~IsFinite(sec) \/ ~IsFinite(nano) THEN InvalidDate
    ELSE TruncatedSum(MsAdd(SecondsToMs(sec.n), Ms(0, nano.n \div NanosPerMs)), nano.n)
PlainObjectToDate(ts) ==
    SecondsAndNanosToDate(
        ToNumber(ts.seconds),
        IF Falsy(ts.nanoseconds) THEN Num(0) ELSE ToNumber(ts.nanoseconds))

\* 10000000000 (workoutService.ts 479) as a pair: 10000 * 1000 * 1000,
\* which is 115 days + 64,000,000 ms.
SecondsThreshold == MsTimes1000(MsTimes1000(Ms(0, 10000)))

\* timestamp < 10000000000 ? new Date(timestamp * 1000) : new Date(timestamp)
NumberToDate(num) ==
    CASE num.t = "number" ->
            IF MsLess(num.v, SecondsThreshold)
            THEN NewDate(MsTimes1000(num.v))
            ELSE NewDate(num.v)
      [] OTHER -> InvalidDate

\* A variant whose fallback is the instant seven days before now.
ValidOrWeekAgo(date, now) == IF date.valid THEN date ELSE ShiftUTCDate(now, -7)

\* convertToDate (workoutService.ts 455-491); now is what new Date() reads.
\* if (!isNaN(date.getTime())) return date; otherwise fall through to the
\* warning and new Date().
ValidOrNow(date, now) == IF date.valid THEN date ELSE now
convertToDate(timestamp, now) ==
    IF timestamp.k = "toDateObject"
    THEN CASE timestamp.toDate = "throws" -> now
           [] timestamp.toDate = "invalid" -> InvalidDate
           [] OTHER -> TimestampToDate(timestamp)
    ELSE IF timestamp.k = "object" /\ timestamp.hasSeconds
    THEN PlainObjectToDate(timestamp)
    ELSE IF timestamp.k = "string"
    THEN ValidOrNow(DateParse(timestamp.str), now)
    ELSE IF timestamp.k = "number"
    THEN ValidOrNow(NumberToDate(timestamp.num), now)
    ELSE now

\* getStartOfWeekJST (workoutService.ts 768-784).
\* A variant of diff that steps back to Sunday on the other days.
MondayDiffSundayBased(dateOfMonth, day) == dateOfMonth - day + (IF day = 0 THEN -6 ELSE 0)
MondayDiff(dateOfMonth, day) == dateOfMonth - day + (IF day = 0 THEN -6 ELSE 1)
StartOfWeekIn(civil, date) ==
    setUTCHoursZero(SetDateIn(civil, date.ms, MondayDiff(civil.date, getUTCDay(date))))
getStartOfWeekJST(date) == StartOfWeekIn(Civil(date.d), date)

---------------------------------------------------------------------------
(* Exercises and sets of a workout document.                               *)
(* A set entry: k is "object" or "null"; its fields are JavaScript values  *)
(* (Undefined when missing).  An exercise entry: k is "object", "null" or  *)
(* "number" (a primitive in the array); name and menuName are JavaScript   *)
(* values; menuType and type are the tag's text, "" when missing; sets is  *)
(* [isArray, items] (isArray FALSE: the field is missing or no array).     *)

MENU_TYPE_VALUES == {"weight", "bodyweight", "time", "distance"}

createInitialVolumeByType ==
    [weight |-> 0, bodyweight |-> 0, time |-> 0, distance |-> 0]

NullSet ==
    [k |-> "null", weight |-> Undefined, reps |-> Undefined,
     duration |-> Undefined, time |-> Undefined, distance |-> Undefined]
SetOf(weight, reps, duration, time, distance) ==
    [k |-> "object", weight |-> weight, reps |-> reps, duration |-> duration,
     time |-> time, distance |-> distance]

NoArray == [isArray |-> FALSE, items |-> <<>>]
ArrayOf(items) == [isArray |-> TRUE, items |-> items]

NullExercise ==
    [k |-> "null", name |-> Undefined, menuName |-> Undefined,
     menuType |-> "", type |-> "", sets |-> NoArray]
PrimitiveExercise == [NullExercise EXCEPT !.k = "number"]
ExerciseOf(name, menuName, menuType, type, sets) ==
    [k |-> "object", name |-> name, menuName |-> menuName,
     menuType |-> menuType, type |-> type, sets |-> sets]

\* Array.isArray(exercise?.sets) ? exercise.sets : []
SetsOf(exercise) == IF exercise.sets.isArray THEN exercise.sets.items ELSE <<>>

\* resolveMenuType (workoutService.ts 248-280).  A null or primitive entry
\* reads as an object without fields (exercise?.x, set?.x are undefined).
hasDistance(sets) == \E i \in 1..Len(sets) : parseNumber(sets[i].distance) > 0
hasWeight(sets) ==
    \E i \in 1..Len(sets) :
        parseNumber(sets[i].weight) > 0 /\ parseNumber(sets[i].reps) > 0
hasTime(sets) ==
    \E i \in 1..Len(sets) : parseNumber(Coalesce(sets[i].duration, sets[i].time)) > 0
hasBodyweight(sets) == \E i \in 1..Len(sets) : parseNumber(sets[i].reps) > 0
\* A variant of the inference that looks for weighted sets before the
\* legacy time tag.
InferMenuTypeWeightFirst(type, sets) ==
    IF hasDistance(sets) THEN "distance"
    ELSE IF hasWeight(sets) \/ type = "weight" THEN "weight"
    ELSE IF type = "time" THEN "time"
    ELSE IF hasTime(sets) THEN "time"
    ELSE "bodyweight"
InferMenuType(type, sets) ==
    IF hasDistance(sets) THEN "distance"
    ELSE IF type = "time" THEN "time"
    ELSE IF hasWeight(sets) \/ type = "weight" THEN "weight"
    ELSE IF hasTime(sets) THEN "time"
    ELSE IF hasBodyweight(sets) THEN "bodyweight"
    ELSE "bodyweight"
\* A variant of resolveMenuType that looks at the sets' distance before the
\* declared menuType.
resolveMenuTypeSetsFirst(exercise) ==
    IF hasDistance(SetsOf(exercise)) THEN "distance"
    ELSE IF exercise.menuType # "" /\ exercise.menuType \in MENU_TYPE_VALUES
    THEN exercise.menuType
    ELSE InferMenuType(exercise.type, SetsOf(exercise))
resolveMenuType(exercise) ==
    IF exercise.menuType # "" /\ exercise.menuType \in MENU_TYPE_VALUES
    THEN exercise.menuType
    ELSE InferMenuType(exercise.type, SetsOf(exercise))

\* One step of the reduce in computeVolumeForExercise (286-324).
\* A variant of the weight case that tests the weight only.
WeightVolumeAnyReps(total, weight, reps) ==
    IF weight <= 0 THEN total ELSE total + weight * reps
WeightVolume(total, weight, reps) ==
    IF weight <= 0 \/ reps <= 0 THEN total ELSE total + weight * reps
PositiveSum(total, amount) == IF amount <= 0 THEN total ELSE total + amount
VolumeStep(type, total, set) ==
    IF set.k = "null" THEN total
    ELSE CASE type = "weight" ->
                WeightVolume(total, parseNumber(set.weight), parseNumber(set.reps))
           [] type = "bodyweight" -> PositiveSum(total, parseNumber(set.reps))
           [] type = "time" ->
                PositiveSum(total, parseNumber(Coalesce(set.time, set.duration)))
           [] type = "distance" -> PositiveSum(total, parseNumber(set.distance))
           [] OTHER -> total

RECURSIVE ReduceVolume(_, _, _)
ReduceVolume(type, sets, total) ==
    IF sets = <<>> THEN total
    ELSE ReduceVolume(type, Tail(sets), VolumeStep(type, total, Head(sets)))

\* computeVolumeForExercise (workoutService.ts 282-327).
VolumeOfType(type, sets) == [type |-> type, volume |-> ReduceVolume(type, sets, 0)]
computeVolumeForExercise(exercise) ==
    VolumeOfType(resolveMenuType(exercise), SetsOf(exercise))

---------------------------------------------------------------------------
(* The weekly aggregations.  A workout document:                           *)
(*   [id, date, totalVolume, warmupDuration, cooldownDuration, exercises]  *)
(* date is a FirestoreTimestampLike, the three numbers are JavaScript      *)
(* values (totalVolume a number, null or undefined), exercises is          *)
(* [isArray, items].  An exception thrown inside the forEach callback      *)
(* leaves the loop: thrown names it and the later documents are skipped.   *)

WARMUP_KEYWORD == <<"ウ", "ォ", "ー", "ム", "ア", "ッ", "プ">>
COOLDOWN_KEYWORD == <<"ク", "ー", "ル", "ダ", "ウ", "ン">>

\* Math.round(seconds / 60) for seconds >= 0.
RoundMinutes(seconds) == (seconds + 30) \div 60

\* typeof v === 'number' && v > 0 (the documents hold no infinite duration).
IsPositiveNumber(v) == v.t = "number" /\ v.n > 0

\* A variant of the window test with an inclusive end.
InWindowClosed(workoutDate, start, end) ==
    DateGeq(workoutDate, start) /\ DateGeq(end, workoutDate)

\* workoutDate >= start && workoutDate < end (workoutService.ts 855, 166).
InWindow(workoutDate, start, end) ==
    DateGeq(workoutDate, start) /\ DateLess(workoutDate, end)

\* A variant of the field total without the test of the sign.
AddFieldSecondsAnySign(total, duration) ==
    IF duration.t = "number" THEN total + duration.n ELSE total

\* total += duration when the workout's field is a positive number
\* (863-870, 173-180); minutes take Math.round(duration / 60).
AddFieldSeconds(total, duration) ==
    IF IsPositiveNumber(duration) THEN total + duration.n ELSE total
AddFieldMinutes(total, duration) ==
    IF IsPositiveNumber(duration) THEN total + RoundMinutes(duration.n) ELSE total

\* A variant of the menu total in which the seconds of the matched
\* exercises replace what the workout's field gave.
ReplaceMenuSeconds(total, secondsFromMenus) ==
    IF secondsFromMenus > 0 THEN secondsFromMenus ELSE total

\* total += secondsFromMenus when positive (908-915, 216-223).
AddMenuSeconds(total, secondsFromMenus) ==
    IF secondsFromMenus > 0 THEN total + secondsFromMenus ELSE total
AddMenuMinutes(total, secondsFromMenus) ==
    IF secondsFromMenus > 0 THEN total + RoundMinutes(secondsFromMenus) ELSE total

\* The reduce over exercise.sets of Number(set?.time ?? set?.duration)
\* (workoutService.ts 891-896, and the same text at 198-203).
AddSeconds(sec, s) == IF IsFinite(s) /\ s.n > 0 THEN sec + s.n ELSE sec
RECURSIVE SecondsSum(_, _)
SecondsSum(sets, sec) ==
    IF sets = <<>> THEN sec
    ELSE SecondsSum(Tail(sets),
                    AddSeconds(sec, ToNumber(Coalesce(Head(sets).time, Head(sets).duration))))

\* The accumulators at zero.
ZeroStats ==
    [thrown |-> "", count |-> 0, totalVolume |-> 0,
     daySet |-> {}, exerciseSet |-> {},
     volumeByType |-> createInitialVolumeByType,
     warmupTotal |-> 0, cooldownTotal |-> 0,
     warmupTotalSeconds |-> 0, cooldownTotalSeconds |-> 0,
     warmupSecondsFromMenus |-> 0, cooldownSecondsFromMenus |-> 0]

\* A variant in which the accumulators live outside the function and keep
\* what the run before left in them.
CarriedStats ==
    IF probe.fn \in {"this", "last"} /\ probe.ret # <<>> /\ probe.ret[1].outcome.status = "ok"
    THEN [ZeroStats EXCEPT !.count = probe.ret[1].outcome.stats.count,
                           !.totalVolume = probe.ret[1].outcome.stats.totalVolume]
    ELSE ZeroStats

\* A variant in which the two functions share their accumulators: a run
\* starts from what a settled call has counted.
SettledCalls == {c \in {"this", "last"} : call[c].pc = "done" /\ call[c].outcome.status = "ok"}
SharedStats ==
    IF SettledCalls # {}
    THEN [ZeroStats EXCEPT
            !.count = call[CHOOSE c \in SettledCalls : TRUE].outcome.stats.count,
            !.totalVolume = call[CHOOSE c \in SettledCalls : TRUE].outcome.stats.totalVolume]
    ELSE ZeroStats

InitialStats ==
    [thrown |-> "", count |-> 0, totalVolume |-> 0,
     daySet |-> {}, exerciseSet |-> {},
     volumeByType |-> createInitialVolumeByType,
     warmupTotal |-> 0, cooldownTotal |-> 0,
     warmupTotalSeconds |-> 0, cooldownTotalSeconds |-> 0,
     warmupSecondsFromMenus |-> 0, cooldownSecondsFromMenus |-> 0]

\* if (exercise && typeof exercise.name === 'string' &&
\*     exercise.name.trim().length > 0) exerciseSet.add(exercise.name.trim())
AddTrimmedName(a, trimmed) ==
    IF Len(trimmed) > 0 THEN [a EXCEPT !.exerciseSet = @ \cup {trimmed}] ELSE a
AddExerciseName(a, exercise) ==
    IF exercise.k # "null" /\ exercise.name.t = "string"
    THEN AddTrimmedName(a, trim(exercise.name.s))
    ELSE a

\* A variant that adds every volume to the weight bucket.
AddVolumeToWeight(a, cv) ==
    IF cv.volume > 0 THEN [a EXCEPT !.volumeByType["weight"] = @ + cv.volume] ELSE a

\* if (volume > 0) volumeByType[type] += volume
AddVolume(a, cv) ==
    IF cv.volume > 0 THEN [a EXCEPT !.volumeByType[cv.type] = @ + cv.volume] ELSE a

\* The menu-name part of the exercise callback: menuName, isTimeMenu,
\* secondsSum and the two keyword tests.
MenuSecondsSum(exercise) ==
    IF exercise.sets.isArray THEN SecondsSum(exercise.sets.items, 0) ELSE 0
AddKeywordSeconds(a, text, secondsSum) ==
    [a EXCEPT
       !.warmupSecondsFromMenus =
           IF secondsSum > 0 /\ includes(text, WARMUP_KEYWORD) THEN @ + secondsSum ELSE @,
       !.cooldownSecondsFromMenus =
           IF secondsSum > 0 /\ includes(text, COOLDOWN_KEYWORD) THEN @ + secondsSum ELSE @]
AddNamedSeconds(a, exercise, menuName) ==
    IF /\ menuName.t = "string"
       /\ Len(menuName.s) > 0
       /\ (exercise.menuType = "time" \/ resolveMenuType(exercise) = "time")
    THEN AddKeywordSeconds(a, menuName.s, MenuSecondsSum(exercise))
    ELSE a
\* const menuName = exercise.menuName ?? exercise.name ?? '' throws a
\* TypeError when the entry is null or undefined.
AddMenuTime(a, exercise) ==
    IF exercise.k = "null"
    THEN [a EXCEPT !.thrown = "TypeError"]
    ELSE AddNamedSeconds(a, exercise,
             Coalesce(Coalesce(exercise.menuName, exercise.name), Str(<<>>)))

\* The callback of data.exercises.forEach in getThisWeeksStats (877-906).
\* a carries the accumulators of the call and the two per-workout sums.
ThisWeekExercise(a, exercise) ==
    AddMenuTime(AddVolume(AddExerciseName(a, exercise), computeVolumeForExercise(exercise)),
                exercise)

RECURSIVE ThisWeekExercises(_, _)
ThisWeekExercises(a, exercises) ==
    IF exercises = <<>> \/ a.thrown # "" THEN a
    ELSE ThisWeekExercises(ThisWeekExercise(a, Head(exercises)), Tail(exercises))

\* The number of documents whose date the debug log of getThisWeeksStats
\* prints (indexOf(doc) < 5, workoutService.ts 843).
DebugLogCount == 5

\* After the exercises of one workout: the per-workout sums join the
\* totals (908-915, 216-223) unless the loop threw.
AddMenuTotals(a) ==
    IF a.thrown # "" THEN a
    ELSE [a EXCEPT
            !.warmupTotal = AddMenuMinutes(@, a.warmupSecondsFromMenus),
            !.warmupTotalSeconds = AddMenuSeconds(@, a.warmupSecondsFromMenus),
            !.cooldownTotal = AddMenuMinutes(@, a.cooldownSecondsFromMenus),
            !.cooldownTotalSeconds = AddMenuSeconds(@, a.cooldownSecondsFromMenus)]

\* The in-window part of the callback in getThisWeeksStats before the
\* exercises (856-876).
ThisWeekCounted(a, data, workoutDate) ==
    [a EXCEPT
       !.count = @ + 1,
       !.totalVolume = @ + Coalesce(data.totalVolume, Num(0)).n,
       !.warmupTotal = AddFieldMinutes(@, data.warmupDuration),
       !.warmupTotalSeconds = AddFieldSeconds(@, data.warmupDuration),
       !.cooldownTotal = AddFieldMinutes(@, data.cooldownDuration),
       !.cooldownTotalSeconds = AddFieldSeconds(@, data.cooldownDuration),
       !.daySet = @ \cup {IsoDay(workoutDate)},
       !.warmupSecondsFromMenus = 0,
       !.cooldownSecondsFromMenus = 0]

ThisWeekWithExercises(a, data) ==
    IF ~data.exercises.isArray THEN a
    ELSE AddMenuTotals(ThisWeekExercises(a, data.exercises.items))

\* The callback of querySnapshot.docs.forEach in getThisWeeksStats
\* (838-918) for the document at 0-based position index, workoutDate being
\* convertToDate(data.date).  The debug log calls workoutDate.toISOString(),
\* which throws a RangeError on an Invalid Date.
ThisWeekDocAt(a, data, index, startOfWeek, endOfWeek, workoutDate) ==
    IF index < DebugLogCount /\ ~workoutDate.valid
    THEN [a EXCEPT !.thrown = "RangeError"]
    ELSE IF InWindow(workoutDate, startOfWeek, endOfWeek)
    THEN ThisWeekWithExercises(ThisWeekCounted(a, data, workoutDate), data)
    ELSE a
ThisWeekDoc(a, data, index, startOfWeek, endOfWeek, now) ==
    ThisWeekDocAt(a, data, index, startOfWeek, endOfWeek, convertToDate(data.date, now))

RECURSIVE ThisWeekDocs(_, _, _, _, _, _)
ThisWeekDocs(a, docs, index, startOfWeek, endOfWeek, now) ==
    IF index >= Len(docs) \/ a.thrown # "" THEN a
    ELSE ThisWeekDocs(ThisWeekDoc(a, docs[index + 1], index, startOfWeek, endOfWeek, now),
                      docs, index + 1, startOfWeek, endOfWeek, now)

\* The callback of data.exercises.forEach in getLastWeeksStats (185-213).
LastWeekExercise(a, exercise) ==
    AddMenuTime(AddVolume(AddExerciseName(a, exercise), computeVolumeForExercise(exercise)),
                exercise)

RECURSIVE LastWeekExercises(_, _)
LastWeekExercises(a, exercises) ==
    IF exercises = <<>> \/ a.thrown # "" THEN a
    ELSE LastWeekExercises(LastWeekExercise(a, Head(exercises)), Tail(exercises))

\* The in-window part of the callback in getLastWeeksStats before the
\* exercises (167-184).
LastWeekCounted(a, data, workoutDate) ==
    [a EXCEPT
       !.count = @ + 1,
       !.totalVolume = @ + Coalesce(data.totalVolume, Num(0)).n,
       !.daySet = @ \cup {IsoDay(workoutDate)},
       !.warmupTotal = AddFieldMinutes(@, data.warmupDuration),
       !.warmupTotalSeconds = AddFieldSeconds(@, data.warmupDuration),
       !.cooldownTotal = AddFieldMinutes(@, data.cooldownDuration),
       !.cooldownTotalSeconds = AddFieldSeconds(@, data.cooldownDuration),
       !.warmupSecondsFromMenus = 0,
       !.cooldownSecondsFromMenus = 0]

LastWeekWithExercises(a, data) ==
    IF ~data.exercises.isArray THEN a
    ELSE AddMenuTotals(LastWeekExercises(a, data.exercises.items))

\* The callback of querySnapshot.docs.forEach in getLastWeeksStats (163-226).
LastWeekDocAt(a, data, lastWeekStart, lastWeekEnd, workoutDate) ==
    IF InWindow(workoutDate, lastWeekStart, lastWeekEnd)
    THEN LastWeekWithExercises(LastWeekCounted(a, data, workoutDate), data)
    ELSE a
LastWeekDoc(a, data, lastWeekStart, lastWeekEnd, now) ==
    LastWeekDocAt(a, data, lastWeekStart, lastWeekEnd, convertToDate(data.date, now))

RECURSIVE LastWeekDocs(_, _, _, _, _)
LastWeekDocs(a, docs, lastWeekStart, lastWeekEnd, now) ==
    IF docs = <<>> \/ a.thrown # "" THEN a
    ELSE LastWeekDocs(LastWeekDoc(a, Head(docs), lastWeekStart, lastWeekEnd, now),
                      Tail(docs), lastWeekStart, lastWeekEnd, now)

\* What a call resolves to: the statistics object of the return statement
\* (920-930, 231-241), or the Error of the catch block (931-938, 242-245)
\* when the loop threw.
Outcome(a) ==
    IF a.thrown # ""
    THEN [status |-> "error", cause |-> a.thrown, stats |-> <<>>]
    ELSE [status |-> "ok", cause |-> "",
          stats |-> [count |-> a.count,
                     totalVolume |-> a.totalVolume,
                     uniqueDays |-> Cardinality(a.daySet),
                     uniqueExercises |-> Cardinality(a.exerciseSet),
                     volumeByType |-> a.volumeByType,
                     warmupTotal |-> a.warmupTotal,
                     cooldownTotal |-> a.cooldownTotal,
                     warmupTotalSeconds |-> a.warmupTotalSeconds,
                     cooldownTotalSeconds |-> a.cooldownTotalSeconds]]

\* A variant of the window whose end is six days after its start.
WindowFromSixDays(startOfWeek) ==
    [start |-> startOfWeek, end |-> ShiftUTCDate(startOfWeek, 6)]

\* The window of getThisWeeksStats (804-813) for the clock reading now.
WindowFrom(startOfWeek) == [start |-> startOfWeek, end |-> ShiftUTCDate(startOfWeek, 7)]
ThisWeekWindow(now) == WindowFrom(getStartOfWeekJST(now))

\* A variant of the window that starts six days before its end.
WindowUntilSixDays(thisWeekStart) ==
    [start |-> ShiftUTCDate(thisWeekStart, -6), end |-> thisWeekStart]

\* The window of getLastWeeksStats (136-140).
WindowUntil(thisWeekStart) ==
    [start |-> ShiftUTCDate(thisWeekStart, -7), end |-> thisWeekStart]
LastWeekWindow(now) == WindowUntil(getStartOfWeekJST(now))

\* The part of each function after its await: the fold over the fetched
\* documents and the return or rethrow.
ThisWeekAfterFetch(docs, window, now) ==
    Outcome(ThisWeekDocs(InitialStats, docs, 0, window.start, window.end, now))
LastWeekAfterFetch(docs, window, now) ==
    Outcome(LastWeekDocs(InitialStats, docs, window.start, window.end, now))

---------------------------------------------------------------------------
(* The documents of the model: the workouts collection holds a subset of   *)
(* Workouts (by id).  Dates are chosen on and around the Monday            *)
(* boundaries that the clock readings below produce.                       *)

T(y, mo, dd, h, mi, s, ms) == TimestampOf(UTC(y, mo, dd, h, mi, s, ms))

S_60x10 == SetOf(Num(60), Num(10), Undefined, Undefined, Undefined)
S_60x8 == SetOf(Num(60), Num(8), Undefined, Undefined, Undefined)
S_reps12 == SetOf(Undefined, Num(12), Undefined, Undefined, Undefined)
S_duration60 == SetOf(Undefined, Undefined, Num(60), Undefined, Undefined)
S_time90 == SetOf(Undefined, Undefined, Undefined, Num(90), Undefined)
S_distance5 == SetOf(Undefined, Undefined, Undefined, Undefined, Num(5))
S_text == SetOf(Str(<<"a", "b">>), Str(<<"1", "0">>), NaN, Str(<<"x">>), Infinity)

BenchPress ==
    ExerciseOf(Str(<<"B", "e", "n", "c", "h">>), Undefined, "weight", "weight",
               ArrayOf(<<S_60x10, S_60x8>>))
Squat == ExerciseOf(Str(<<" ", "S", "q", " ">>), Undefined, "", "", ArrayOf(<<S_reps12>>))
Run == ExerciseOf(Str(<<"R", "u", "n">>), Undefined, "", "", ArrayOf(<<S_distance5>>))
WarmupExercise ==
    ExerciseOf(Str(<<"A", "M", " ">> \o WARMUP_KEYWORD), Undefined, "time", "time",
               ArrayOf(<<S_duration60>>))
CooldownExercise ==
    ExerciseOf(Str(COOLDOWN_KEYWORD), Undefined, "", "", ArrayOf(<<S_time90, NullSet>>))
\* menuName differs from name: the name holds the warmup keyword, the
\* menuName does not.
RenamedWarmup ==
    ExerciseOf(Str(WARMUP_KEYWORD), Str(<<"J", "o", "g">>), "time", "time",
               ArrayOf(<<S_duration60>>))
NoSets == ExerciseOf(Str(<<"B", "e", "n", "c", "h">>), Undefined, "", "weight", NoArray)
TextSets == ExerciseOf(Str(<<"X">>), Undefined, "weight", "", ArrayOf(<<S_text, S_60x8>>))

NegativeReps ==
    ExerciseOf(Str(<<"D", "i", "p">>), Undefined, "bodyweight", "",
               ArrayOf(<<SetOf(Num(-10), Num(-3), Undefined, Undefined, Undefined)>>))
NegativeWarmup ==
    ExerciseOf(Str(WARMUP_KEYWORD), Undefined, "time", "",
               ArrayOf(<<SetOf(Undefined, Undefined, Undefined, Num(-30), Undefined)>>))

WorkoutOf(id, date, totalVolume, warmupDuration, cooldownDuration, exercises) ==
    [id |-> id, date |-> date, totalVolume |-> totalVolume,
     warmupDuration |-> warmupDuration, cooldownDuration |-> cooldownDuration,
     exercises |-> exercises]

Workouts ==
    <<  \* 1: exactly Monday 2026-11-02 00:00:00.000Z
        WorkoutOf(1, T(2026, 11, 2, 0, 0, 0, 0), Num(1080), Undefined, Undefined,
                  ArrayOf(<<BenchPress>>)),
        \* 2: exactly Monday 2026-11-09 00:00:00.000Z
        WorkoutOf(2, T(2026, 11, 9, 0, 0, 0, 0), Num(0), Num(30), Undefined,
                  ArrayOf(<<Squat>>)),
        \* 3: exactly Monday 2026-10-26 00:00:00.000Z; both warmup sources
        WorkoutOf(3, T(2026, 10, 26, 0, 0, 0, 0), Undefined, Num(120), Num(0),
                  ArrayOf(<<WarmupExercise, CooldownExercise>>)),
        \* 4: the last millisecond before Monday 2026-11-02
        WorkoutOf(4, T(2026, 11, 1, 23, 59, 59, 999), Null, Str(<<"9">>), Num(45),
                  ArrayOf(<<Run, RenamedWarmup>>)),
        \* 5: an ISO string; non-numeric set fields, a missing sets field
        WorkoutOf(5, TsIso(2026, 11, 3, 16, 30, 0, 0), Num(480), Num(100), Undefined,
                  ArrayOf(<<TextSets, NoSets, WarmupExercise>>)),
        \* 6: a string that is no date
        WorkoutOf(6, TsText, Num(600), Num(60), Num(60), ArrayOf(<<BenchPress>>)),
        \* 7: a map whose seconds is not numeric
        WorkoutOf(7, TsObject(Str(<<"a", "b", "c">>), Num(0)), Num(10), Undefined,
                  Undefined, ArrayOf(<<Squat>>)),
        \* 8: a null entry among the exercises
        WorkoutOf(8, T(2026, 11, 3, 9, 0, 0, 0), Num(1080), Undefined, Undefined,
                  ArrayOf(<<BenchPress, NullExercise>>)),
        \* 9: exercises is no array
        WorkoutOf(9, T(2026, 10, 28, 12, 0, 0, 0), Num(20), Num(200), Undefined, NoArray),
        \* 10: epoch seconds, Tuesday 2026-10-20
        WorkoutOf(10, SecondsOf(UTC(2026, 10, 20, 7, 0, 0, 0)), Num(5), Undefined,
                  Num(75), ArrayOf(<<Run, CooldownExercise>>)),
        \* 11: a null date
        WorkoutOf(11, TsNull, Undefined, Undefined, Undefined, ArrayOf(<<Squat>>)),
        \* 12: a map of seconds and nanoseconds; a primitive among the exercises
        WorkoutOf(12, TsObject(Num(EpochSeconds(UTC(2026, 11, 3, 20, 0, 0, 0))),
                               Num(500 * NanosPerMs)),
                  Num(0), Num(15), Undefined,
                  ArrayOf(<<PrimitiveExercise, WarmupExercise>>)),
        \* 13: negative numbers in the fields and in the sets
        WorkoutOf(13, T(2026, 11, 4, 8, 0, 0, 0), Num(0), Num(-50), Num(-1),
                  ArrayOf(<<NegativeReps, NegativeWarmup>>))
    >>

WorkoutIds == 1..Len(Workouts)

\* The most documents the collection holds.
MaxDocs == 3

\* query(workoutsRef, orderBy('date', 'desc')) (817-821, 145-149): the
\* documents by descending date field.  The store orders values of
\* different types by type (null, number, timestamp, string, map) and
\* breaks ties by document id.
DateRank(ts) ==
    CASE ts.k = "null" -> 0
      [] ts.k = "number" -> 1
      [] ts.k = "toDateObject" -> 2
      [] ts.k = "string" -> 3
      [] OTHER -> 4
DateOrderKey(ts) ==
    CASE ts.k = "number" -> ts.num.v
      [] ts.k = "toDateObject" -> TimeOf(TimestampToDate(ts))
      [] ts.k = "string" -> TimeOf(DateParse(ts.str))
      [] OTHER -> [d |-> 0, ms |-> 0]
OrderedBefore(i, j) ==
    LET a == Workouts[i].date
        b == Workouts[j].date
    IN  \/ DateRank(a) > DateRank(b)
        \/ /\ DateRank(a) = DateRank(b)
           /\ \/ MsLess(DateOrderKey(b), DateOrderKey(a))
              \/ (DateOrderKey(a) = DateOrderKey(b) /\ i > j)
RECURSIVE QueryDocs(_)
QueryDocs(ids) ==
    IF ids = {} THEN <<>>
    ELSE LET first == CHOOSE i \in ids : \A j \in ids \ {i} : OrderedBefore(i, j)
         IN  <<Workouts[first]>> \o QueryDocs(ids \ {first})

\* The clock readings: the last millisecond of a week, the first of the
\* next, and a Wednesday evening of that week.
ClockReadings ==
    {UTC(2026, 11, 1, 23, 59, 59, 999),
     UTC(2026, 11, 2, 0, 0, 0, 0),
     UTC(2026, 11, 4, 20, 0, 0, 0)}

CallIds == {"this", "last"}

\* A call of one of the two functions: pc is its position (idle, fetching:
\* suspended at await getDocs, done: settled), window what it computed
\* before the await, fetch how getDocs settled, at the clock reading while
\* the loop ran, outcome what the call settled to.
Idle == [pc |-> "idle", window |-> <<>>, fetch |-> "", at |-> <<>>, outcome |-> <<>>]

\* A single application of one of the pure functions: its argument, the
\* clock reading at the call, and its result.
NoProbe == [fn |-> "", arg |-> <<>>, now |-> <<>>, ret |-> <<>>]

\* A variant of the failure path that settles with the statistics of no
\* documents, as getTodaysWorkouts answers a failure with an empty list.
EmptyStatsOnFailure == Outcome(InitialStats)

\* What a call settles to when getDocs rejects: the catch block rethrows
\* (931-938, 242-245).
FetchFailure == [status |-> "error", cause |-> "fetch", stats |-> <<>>]

---------------------------------------------------------------------------
(* The dashboard: the clock advances, and the two functions are called     *)
(* (src/unnamed/part_005 calls both through Promise.all), each suspended   *)
(* at its await while the other may run.                                   *)

Init ==
    /\ clock \in ClockReadings
    /\ store \in {ids \in SUBSET WorkoutIds : Cardinality(ids) <= MaxDocs}
    /\ call = [c \in CallIds |-> Idle]
    /\ probe = NoProbe

\* Time passes.
Tick ==
    /\ \E later \in ClockReadings :
          /\ DateLess(clock, later)
          /\ clock' = later
    /\ UNCHANGED <<store, call, probe>>

\* A call runs to its await: it reads the clock and computes its window
\* (804-824, 136-151).
Start(c) ==
    /\ call[c].pc = "idle"
    /\ call' = [call EXCEPT ![c] =
                  [pc |-> "fetching",
                   window |-> IF c = "this" THEN ThisWeekWindow(clock)
                              ELSE LastWeekWindow(clock),
                   fetch |-> "pending", at |-> <<>>, outcome |-> <<>>]]
    /\ UNCHANGED <<clock, store, probe>>

\* getDocs resolves with the collection's documents and the call runs to
\* its end.
FetchOk(c) ==
    /\ call[c].pc = "fetching"
    /\ call' = [call EXCEPT ![c] =
                  [pc |-> "done",
                   window |-> call[c].window,
                   fetch |-> "ok", at |-> clock,
                   outcome |-> IF c = "this"
                               THEN ThisWeekAfterFetch(QueryDocs(store), call[c].window, clock)
                               ELSE LastWeekAfterFetch(QueryDocs(store), call[c].window, clock)]]
    /\ UNCHANGED <<clock, store, probe>>

\* getDocs rejects.
FetchFail(c) ==
    /\ call[c].pc = "fetching"
    /\ call' = [call EXCEPT ![c] =
                  [pc |-> "done", window |-> call[c].window,
                   fetch |-> "failed", at |-> clock, outcome |-> FetchFailure]]
    /\ UNCHANGED <<clock, store, probe>>

\* The caller takes the result; the function may be called again.
Return(c) ==
    /\ call[c].pc = "done"
    /\ call' = [call EXCEPT ![c] = Idle]
    /\ UNCHANGED <<clock, store, probe>>

Next ==
    \/ Tick
    \/ \E c \in CallIds : Start(c)
    \/ \E c \in CallIds : FetchOk(c)
    \/ \E c \in CallIds : FetchFail(c)
    \/ \E c \in CallIds : Return(c)

Spec == Init /\ [][Next]_vars

---------------------------------------------------------------------------
(* convertToDate applied once to a date value, at some clock reading.      *)

\* Instants that documents are dated at.
Instants ==
    {UTC(2026, 11, 2, 0, 0, 0, 0),
     UTC(2026, 11, 3, 16, 30, 0, 0),
     UTC(2026, 10, 20, 7, 0, 0, 0),
     UTC(2026, 11, 1, 23, 59, 59, 999),
     UTC(2026, 2, 28, 12, 0, 0, 500),
     UTC(2027, 1, 1, 0, 0, 0, 0)}

\* The values of type FirestoreTimestampLike (workoutService.ts 24-31) that
\* stand for the instant d: a native Date, a store Timestamp, an ISO
\* string, epoch milliseconds and (for whole seconds) epoch seconds.
NumberEncodings(d) ==
    {MillisOf(d)} \cup (IF d.ms % MsPerSecond = 0 THEN {SecondsOf(d)} ELSE {})
Encodings(d) == {TsDate(d), TimestampOf(d), IsoOf(d)} \cup NumberEncodings(d)

\* The plain map { seconds, nanoseconds } of d.
MapOf(d) == TsObject(Num(EpochSeconds(d)), Num((d.ms % MsPerSecond) * NanosPerMs))

\* Values that denote no instant.
Unconvertible ==
    {TsNull, TsUndefined, TsText, TsIso(2026, 13, 1, 0, 0, 0, 0),
     TsNonFinite("NaN"), TsNonFinite("Infinity"), TsNonFinite("-Infinity"),
     TsObject(Str(<<"a", "b", "c">>), Num(0)), TsObject(Undefined, Undefined),
     TsObject(NaN, Num(0)), TsToDate("invalid")}

\* Numbers on both sides of 10,000,000,000 and of -10,000,000,000.
MsNeg(n) == Ms(-n.d, -n.ms)
EpochNumbers ==
    {Ms(0, 0), Ms(0, -1), Ms(0, 1),
     MsAdd(SecondsThreshold, Ms(0, -1)), SecondsThreshold,
     MsAdd(SecondsThreshold, SecondsThreshold),
     MsNeg(MsAdd(SecondsThreshold, Ms(0, -1))), MsNeg(SecondsThreshold),
     MsNeg(MsAdd(SecondsThreshold, SecondsThreshold))}

TimestampInputs ==
    UNION {Encodings(d) \cup {MapOf(d)} : d \in Instants}
        \cup Unconvertible \cup {TsEmptyObject, TsToDate("throws")}
        \cup {TsNumber(n) : n \in EpochNumbers}

InitConvertToDate ==
    /\ clock \in ClockReadings
    /\ store = {}
    /\ call = [c \in CallIds |-> Idle]
    /\ probe = NoProbe

CallConvertToDate ==
    /\ probe = NoProbe
    /\ \E timestamp \in TimestampInputs :
          probe' = [fn |-> "convertToDate", arg |-> timestamp, now |-> clock,
                    ret |-> convertToDate(timestamp, clock)]
    /\ UNCHANGED <<clock, store, call>>

NextConvertToDate ==
    \/ Tick
    \/ CallConvertToDate

SpecConvertToDate == InitConvertToDate /\ [][NextConvertToDate]_vars

---------------------------------------------------------------------------
(* getStartOfWeekJST applied once to an instant.                           *)

\* Whole weeks around a month end, a year end and a leap day.
WeekDays ==
    (MakeDay(2026, 9, 19)..MakeDay(2026, 10, 15))
        \cup (MakeDay(2026, 11, 28)..MakeDay(2027, 0, 4))
        \cup (MakeDay(2024, 1, 26)..MakeDay(2024, 2, 3))

\* Times of day: midnight UTC, the last millisecond before and the first
\* of midnight at UTC+9 (15:00 UTC), the evening, the last millisecond.
DayTimes == {0, 15 * MsPerHour - 1, 15 * MsPerHour, 20 * MsPerHour, MsPerDay - 1}

WeekInstants == {NewDate([d |-> day, ms |-> ms]) : day \in WeekDays, ms \in DayTimes}

InitStartOfWeek ==
    /\ clock = UTC(2026, 11, 2, 0, 0, 0, 0)
    /\ store = {}
    /\ call = [c \in CallIds |-> Idle]
    /\ probe = NoProbe

CallGetStartOfWeekJST ==
    /\ probe = NoProbe
    /\ \E date \in WeekInstants :
          probe' = [fn |-> "getStartOfWeekJST", arg |-> date, now |-> clock,
                    ret |-> getStartOfWeekJST(date)]
    /\ UNCHANGED <<clock, store, call>>

\* The two windows that one clock reading gives: the statements of
\* getThisWeeksStats (804-813) and of getLastWeeksStats (136-140) before
\* the query.
CallWeekWindows ==
    /\ probe = NoProbe
    /\ \E now \in WeekInstants :
          probe' = [fn |-> "windows", arg |-> now, now |-> now,
                    ret |-> [this |-> ThisWeekWindow(now), last |-> LastWeekWindow(now)]]
    /\ UNCHANGED <<clock, store, call>>

NextStartOfWeek == CallGetStartOfWeekJST \/ CallWeekWindows

SpecStartOfWeek == InitStartOfWeek /\ [][NextStartOfWeek]_vars

---------------------------------------------------------------------------
(* resolveMenuType and computeVolumeForExercise applied once to an         *)
(* exercise.                                                               *)

\* The most sets an exercise holds.
MaxSets == 2

ProbeSets ==
    {SetOf(Num(10), Num(5), Undefined, Undefined, Undefined),
     SetOf(Num(10), Num(0), Undefined, Undefined, Undefined),
     SetOf(Num(10), Num(-2), Undefined, Undefined, Undefined),
     SetOf(Num(0), Num(5), Undefined, Undefined, Undefined),
     SetOf(Num(10), Undefined, Undefined, Undefined, Undefined),
     SetOf(Str(<<"6", "0">>), Str(<<" ", "8">>), Undefined, Undefined, Undefined),
     S_text, S_distance5, S_duration60, S_time90, NullSet,
     SetOf(Undefined, Undefined, Num(0), Num(60), Undefined),
     SetOf(Undefined, Undefined, Num(45), Num(0), Undefined),
     SetOf(Num(80), Num(7), Num(20), Undefined, Num(3))}

SetLists == UNION {[1..n -> ProbeSets] : n \in 0..MaxSets}

\* menuType as stored: missing, one of the four values, or another text.
DeclaredTypes == {""} \cup MENU_TYPE_VALUES \cup {"cardio"}
LegacyTypes == {"", "time", "weight"}

ExerciseInputs ==
    {ExerciseOf(Str(<<"X">>), Undefined, menuType, type, sets) :
        menuType \in DeclaredTypes, type \in LegacyTypes,
        sets \in {ArrayOf(items) : items \in SetLists} \cup {NoArray}}

InitExercise ==
    /\ clock = UTC(2026, 11, 2, 0, 0, 0, 0)
    /\ store = {}
    /\ call = [c \in CallIds |-> Idle]
    /\ probe = NoProbe

CallResolveMenuType ==
    /\ probe = NoProbe
    /\ \E exercise \in ExerciseInputs :
          probe' = [fn |-> "resolveMenuType", arg |-> exercise, now |-> clock,
                    ret |-> resolveMenuType(exercise)]
    /\ UNCHANGED <<clock, store, call>>

CallComputeVolumeForExercise ==
    /\ probe = NoProbe
    /\ \E exercise \in ExerciseInputs :
          probe' = [fn |-> "computeVolumeForExercise", arg |-> exercise, now |-> clock,
                    ret |-> computeVolumeForExercise(exercise)]
    /\ UNCHANGED <<clock, store, call>>

NextExercise ==
    \/ CallResolveMenuType
    \/ CallComputeVolumeForExercise

SpecExercise == InitExercise /\ [][NextExercise]_vars

---------------------------------------------------------------------------
(* The loop of one aggregation taken one document at a time: probe.ret is  *)
(* the accumulators after the documents before position probe.arg.index.   *)
(* The clock may advance between two documents (convertToDate reads it).   *)

InitFold ==
    /\ clock \in ClockReadings
    /\ store \in {ids \in SUBSET WorkoutIds : Cardinality(ids) <= MaxDocs}
    /\ call = [c \in CallIds |-> Idle]
    /\ probe = NoProbe

\* The call up to the first document: the window, the fetched documents
\* and the fresh accumulators (804-835, 136-161).
FoldStart(c) ==
    /\ probe = NoProbe
    /\ probe' = [fn |-> c,
                 arg |-> [docs |-> QueryDocs(store), index |-> 0,
                          window |-> IF c = "this" THEN ThisWeekWindow(clock)
                                     ELSE LastWeekWindow(clock)],
                 now |-> clock,
                 ret |-> InitialStats]
    /\ UNCHANGED <<clock, store, call>>

\* One run of the forEach callback (838-918, 163-226).
FoldStep ==
    /\ probe.fn \in CallIds
    /\ probe.ret.thrown = ""
    /\ probe.arg.index < Len(probe.arg.docs)
    /\ probe' = [probe EXCEPT
                   !.arg.index = @ + 1,
                   !.now = clock,
                   !.ret = IF probe.fn = "this"
                           THEN ThisWeekDoc(@, probe.arg.docs[probe.arg.index + 1],
                                            probe.arg.index, probe.arg.window.start,
                                            probe.arg.window.end, clock)
                           ELSE LastWeekDoc(@, probe.arg.docs[probe.arg.index + 1],
                                            probe.arg.window.start,
                                            probe.arg.window.end, clock)]
    /\ UNCHANGED <<clock, store, call>>

NextFold ==
    \/ Tick
    \/ \E c \in CallIds : FoldStart(c)
    \/ FoldStep

SpecFold == InitFold /\ [][NextFold]_vars

---------------------------------------------------------------------------
(* One of the two functions run twice, each run from its first statement   *)
(* to its return with nothing else in between; the clock may advance       *)
(* between the runs.  probe.ret lists what the runs returned.              *)

\* A whole run of call c over the documents ids at the clock reading now.
RunAlone(c, ids, now) ==
    IF c = "this"
    THEN ThisWeekAfterFetch(QueryDocs(ids), ThisWeekWindow(now), now)
    ELSE LastWeekAfterFetch(QueryDocs(ids), LastWeekWindow(now), now)

InitRepeat ==
    /\ clock \in ClockReadings
    /\ store \in {ids \in SUBSET WorkoutIds : Cardinality(ids) <= MaxDocs}
    /\ call = [c \in CallIds |-> Idle]
    /\ probe = NoProbe

FirstRun(c) ==
    /\ probe = NoProbe
    /\ probe' = [fn |-> c, arg |-> <<>>, now |-> clock,
                 ret |-> <<[at |-> clock, outcome |-> RunAlone(c, store, clock)]>>]
    /\ UNCHANGED <<clock, store, call>>

SecondRun ==
    /\ probe.fn \in CallIds
    /\ Len(probe.ret) = 1
    /\ probe' = [probe EXCEPT
                   !.now = clock,
                   !.ret = Append(@, [at |-> clock,
                                      outcome |-> RunAlone(probe.fn, store, clock)])]
    /\ UNCHANGED <<clock, store, call>>

NextRepeat ==
    \/ Tick
    \/ \E c \in CallIds : FirstRun(c)
    \/ SecondRun

SpecRepeat == InitRepeat /\ [][NextRepeat]_vars

---------------------------------------------------------------------------
(* One load of the dashboard (src/unnamed/part_005 103-120): fetchData      *)
(* calls getThisWeeksStats, which runs to its await, then                   *)
(* getLastWeeksStats, which runs to its own; the two queries resolve in     *)
(* either order, while the clock advances and workouts are saved and        *)
(* deleted.  probe.arg holds what each query fetched.                       *)

\* The workouts that are saved and deleted during a load.
LoadIds == {1, 3, 4, 6}

NothingFetched ==
    [fn |-> "fetchData", arg |-> [c \in CallIds |-> {}], now |-> <<>>, ret |-> <<>>]

InitLoad ==
    /\ clock \in ClockReadings
    /\ store \in {ids \in SUBSET LoadIds : Cardinality(ids) <= MaxDocs}
    /\ call = [c \in CallIds |-> Idle]
    /\ probe = NothingFetched

\* getThisWeeksStats(user.uid), the first element of the array.
LoadCallThis ==
    /\ call["last"].pc = "idle"
    /\ Start("this")

\* getLastWeeksStats(user.uid), the second element.
LoadCallLast ==
    /\ call["this"].pc = "fetching"
    /\ Start("last")

\* Both calls are suspended or settled: the event loop runs.
BothCalled == \A c \in CallIds : call[c].pc # "idle"

\* The query of call c resolves with the collection as it is now and the
\* call runs to its end.
LoadFetchOk(c) ==
    /\ BothCalled
    /\ call[c].pc = "fetching"
    /\ call' = [call EXCEPT ![c] =
                  [pc |-> "done",
                   window |-> call[c].window,
                   fetch |-> "ok", at |-> clock,
                   outcome |-> IF c = "this"
                               THEN ThisWeekAfterFetch(QueryDocs(store), call[c].window, clock)
                               ELSE LastWeekAfterFetch(QueryDocs(store), call[c].window, clock)]]
    /\ probe' = [probe EXCEPT !.arg[c] = store]
    /\ UNCHANGED <<clock, store>>

LoadFetchFail(c) ==
    /\ BothCalled
    /\ FetchFail(c)

\* createWorkout (346-453) adds a document, deleteWorkout (702-711) removes
\* one (from another page or device).
createWorkout ==
    /\ Cardinality(store) < MaxDocs
    /\ \E i \in LoadIds \ store : store' = store \cup {i}
    /\ UNCHANGED <<clock, call, probe>>
deleteWorkout ==
    /\ \E i \in store : store' = store \ {i}
    /\ UNCHANGED <<clock, call, probe>>

NextLoad ==
    \/ Tick
    \/ LoadCallThis
    \/ LoadCallLast
    \/ \E c \in CallIds : LoadFetchOk(c)
    \/ \E c \in CallIds : LoadFetchFail(c)
    \/ createWorkout
    \/ deleteWorkout

SpecLoad == InitLoad /\ [][NextLoad]_vars

---------------------------------------------------------------------------
(* Share links (src/src/services/shareService.ts).  In this specification  *)
(* store is the shares collection, a document or NoShare per share id;     *)
(* call is the one verifyShare that the access page has under way; probe   *)
(* remembers for which ids a deactivateShare has completed.  A document:   *)
(*   [exists, password, createdAt, expiresAt, isActive]                    *)
(* password and isActive are JavaScript values, the two dates              *)
(* FirestoreTimestampLike values; userId and updatedAt, which no test      *)
(* reads, are left out.                                                    *)

JsTrue == [t |-> "boolean", n |-> 1, s |-> <<>>]
JsFalse == [t |-> "boolean", n |-> 0, s |-> <<>>]

\* Boolean(v).
Boolean(v) == IF v.t = "boolean" THEN v.n = 1 ELSE ~Falsy(v)

\* SHARE_DURATION_MS (shareService.ts 25): 30 days.
SHARE_DURATION_MS == Ms(30, 0)

\* !value for a FirestoreTimestampLike value.
FalsyTimestamp(value) ==
    \/ value.k \in {"null", "undefined"}
    \/ value.k = "number" /\ value.num.t = "NaN"
    \/ value.k = "number" /\ value.num.t = "number" /\ value.num.v = Ms(0, 0)

\* toDateSafe (shareService.ts 51-57).  The result null is the Invalid
\* Date here: the function returns no Date whose time is NaN.
toDateSafe(value) ==
    IF FalsyTimestamp(value) THEN InvalidDate
    ELSE IF value.k = "toDateObject" THEN TimestampToDate(value)
    ELSE IF value.k = "Date" THEN value.date
    ELSE IF value.k = "string" THEN DateParse(value.str)
    ELSE IF value.k = "number" /\ value.num.t = "number" THEN NewDate(value.num.v)
    ELSE InvalidDate

NoShare ==
    [exists |-> FALSE, password |-> Undefined, createdAt |-> TsUndefined,
     expiresAt |-> TsUndefined, isActive |-> Undefined]
ShareDocOf(password, createdAt, expiresAt, isActive) ==
    [exists |-> TRUE, password |-> password, createdAt |-> createdAt,
     expiresAt |-> expiresAt, isActive |-> isActive]

\* toDateSafe(x) ?? new Date(Date.now() + duration).
DateOrNowPlus(date, now, duration) ==
    IF date.valid THEN date ELSE NewDate(MsAdd(TimeOf(now), duration))

\* convertShareDoc (shareService.ts 59-76) of an existing document; now is
\* what new Date() and Date.now() read.
convertShareDoc(data, now) ==
    [password |-> Coalesce(data.password, Str(<<>>)),
     createdAt |-> DateOrNowPlus(toDateSafe(data.createdAt), now, Ms(0, 0)),
     expiresAt |-> DateOrNowPlus(toDateSafe(data.expiresAt), now, SHARE_DURATION_MS),
     isActive |-> Boolean(data.isActive)]

\* What verifyShare resolves to: null, or the share record.
NullShare ==
    [returned |-> FALSE,
     share |-> [password |-> Str(<<>>), createdAt |-> InvalidDate,
                expiresAt |-> InvalidDate, isActive |-> FALSE]]
ReturnedShare(share) == [returned |-> TRUE, share |-> share]

\* verifyShare after getShare's read (shareService.ts 116-131).
VerifyConverted(share, password, now) ==
    IF ~share.isActive \/ share.password # password \/ DateLess(share.expiresAt, now)
    THEN NullShare
    ELSE ReturnedShare(share)
VerifySnapshot(snapshot, password, now) ==
    IF ~snapshot.exists THEN NullShare
    ELSE VerifyConverted(convertShareDoc(snapshot, now), password, now)

\* The ids that generateShareId (27-32) yields, the passwords that
\* generatePassword (34-37) yields, and what a visitor types.
ShareIds == {"s1"}
Passwords == {Str(<<"1", "2", "3", "4">>), Str(<<"9", "9", "9", "9">>)}
TypedShareIds == ShareIds \cup {"", "s0"}

\* The clock readings: a share's creation, 30 days later to the
\* millisecond, one millisecond after that, and a later month.
ShareClockReadings ==
    {UTC(2026, 11, 2, 0, 0, 0, 0),
     UTC(2026, 12, 2, 0, 0, 0, 0),
     UTC(2026, 12, 2, 0, 0, 0, 1),
     UTC(2027, 1, 5, 0, 0, 0, 0)}

\* Documents written earlier: by createShare on 2026-11-02, and the same
\* without expiresAt or with text in its place.
StoredShares ==
    {NoShare}
        \cup {ShareDocOf(Str(<<"1", "2", "3", "4">>), T(2026, 11, 2, 0, 0, 0, 0),
                         expiresAt, JsTrue) :
                  expiresAt \in {T(2026, 12, 2, 0, 0, 0, 0), TsUndefined, TsText}}

NoVerify ==
    [pc |-> "idle", shareId |-> "", password |-> Str(<<>>), snapshot |-> NoShare,
     late |-> FALSE, at |-> InvalidDate, result |-> NullShare]

InitShare ==
    /\ clock = UTC(2026, 11, 2, 0, 0, 0, 0)
    /\ store \in [ShareIds -> StoredShares]
    /\ call = NoVerify
    /\ probe = [fn |-> "deactivateShare", arg |-> {}, now |-> <<>>, ret |-> <<>>]

TickShare ==
    /\ \E later \in ShareClockReadings :
          /\ DateLess(clock, later)
          /\ clock' = later
    /\ UNCHANGED <<store, call, probe>>

\* createShare (shareService.ts 78-109): setDoc writes the document of the
\* generated id, whatever the collection holds under that id.
createShare ==
    /\ \E shareId \in ShareIds, password \in Passwords :
          store' = [store EXCEPT ![shareId] =
                      ShareDocOf(password, TimestampOf(clock),
                                 TimestampOf(NewDate(MsAdd(TimeOf(clock), SHARE_DURATION_MS))),
                                 JsTrue)]
    /\ UNCHANGED <<clock, call, probe>>

\* deactivateShare (shareService.ts 134-143): updateDoc rejects when there
\* is no such document, and the call completes only when it has written.
deactivateShare ==
    /\ \E shareId \in ShareIds :
          /\ store[shareId].exists
          /\ store' = [store EXCEPT ![shareId].isActive = JsFalse]
          /\ probe' = [probe EXCEPT !.arg = @ \cup {shareId}]
    /\ UNCHANGED <<clock, call>>

\* handleSubmit (share/page.tsx 651-675) calls verifyShare, which awaits
\* getShare: an empty id gives null, otherwise getDoc reads the document.
\* late tells that a deactivateShare of this id had completed by then.
verifyShareGetDoc ==
    /\ call.pc = "idle"
    /\ \E shareId \in TypedShareIds, password \in Passwords :
          call' = [pc |-> "read", shareId |-> shareId, password |-> password,
                   snapshot |-> IF shareId \in ShareIds THEN store[shareId] ELSE NoShare,
                   late |-> shareId \in probe.arg,
                   at |-> InvalidDate, result |-> NullShare]
    /\ UNCHANGED <<clock, store, probe>>

\* verifyShare after the await: convertShareDoc and the three tests, at the
\* clock reading of that moment.
verifyShareReturn ==
    /\ call.pc = "read"
    /\ call' = [call EXCEPT
                  !.pc = "done", !.at = clock,
                  !.result = VerifySnapshot(call.snapshot, call.password, clock)]
    /\ UNCHANGED <<clock, store, probe>>

\* handleSubmit takes the result; the form can be submitted again.
handleSubmitEnd ==
    /\ call.pc = "done"
    /\ call' = NoVerify
    /\ UNCHANGED <<clock, store, probe>>

NextShare ==
    \/ TickShare
    \/ createShare
    \/ deactivateShare
    \/ verifyShareGetDoc
    \/ verifyShareReturn
    \/ handleSubmitEnd

SpecShare == InitShare /\ [][NextShare]_vars

---------------------------------------------------------------------------
(* The default menus (src/unnamed/part_000).  In this specification store  *)
(* is the user's menus collection, the documents [name, order, by] in the  *)
(* order they were written (by: the call that wrote it, "" for a menu the  *)
(* user made); call holds the initializeDefaultMenus of each open page;    *)
(* probe.ret tells whether some call has completed.                        *)

\* DEFAULT_MENUS (part_000 19-28), by name; the last name is written here
\* by its reading.
DEFAULT_MENUS ==
    <<"ベンチプレス", "スミスマシン", "ダンベルプレス", "ラットプルダウン",
      "シーテッドロー", "サイドレイズ", "レッグプレス", "フッキン">>

MenuDoc(name, order, by) == [name |-> name, order |-> order, by |-> by]

\* existingMenus.map(menu => menu.name) as a set.
ExistingNames(existingMenus) == {existingMenus[i].name : i \in 1..Len(existingMenus)}

\* DEFAULT_MENUS.filter(menu => !existingNames.has(menu.name)).
IsMissing(existingNames, name) == name \notin existingNames
MenusToAdd(existingNames) ==
    SelectSeq(DEFAULT_MENUS, LAMBDA name : IsMissing(existingNames, name))

\* Math.max(...existingMenus.map(menu => menu.order ?? 0)), or -1 when
\* there is no menu.
RECURSIVE MaxOrder(_)
MaxOrder(existingMenus) ==
    IF Len(existingMenus) = 1 THEN Head(existingMenus).order
    ELSE LET rest == MaxOrder(Tail(existingMenus))
         IN  IF Head(existingMenus).order > rest THEN Head(existingMenus).order ELSE rest
BaseOrder(existingMenus) == IF Len(existingMenus) > 0 THEN MaxOrder(existingMenus) ELSE -1

\* The documents of the batch: order is baseOrder + index + 1 for the
\* index from 0 of forEach.
BatchOf(menusToAdd, baseOrder, by) ==
    [index \in 1..Len(menusToAdd) |-> MenuDoc(menusToAdd[index], baseOrder + index, by)]

\* The pages of one user that can start the registration.
MenuPages == {"page1", "page2"}

NoInitialize == [pc |-> "idle", existingMenus |-> <<>>, after |-> FALSE, added |-> 0]

\* What the collection holds at first: nothing, a menu of the user, a
\* default menu, or both.
StoredMenus ==
    {<<>>,
     <<MenuDoc("X", 3, "")>>,
     <<MenuDoc("ベンチプレス", 0, "")>>,
     <<MenuDoc("X", 2, ""), MenuDoc("スミスマシン", 5, "")>>}

InitMenus ==
    /\ clock = UTC(2026, 11, 2, 0, 0, 0, 0)
    /\ store \in StoredMenus
    /\ call = [c \in MenuPages |-> NoInitialize]
    /\ probe = [fn |-> "initializeDefaultMenus", arg |-> <<>>, now |-> <<>>, ret |-> FALSE]

\* handleInitializeMenus (menus/page.tsx 371-395) calls
\* initializeDefaultMenus, which awaits getMenus (part_000 365).
InitializeGetMenus(c) ==
    /\ call[c].pc = "idle"
    /\ call' = [call EXCEPT ![c] =
                  [pc |-> "read", existingMenus |-> store,
                   after |-> probe.ret, added |-> 0]]
    /\ UNCHANGED <<clock, store, probe>>

\* After the await: menusToAdd from what was read, and batch.commit()
\* writes the batch at once (366-402).
InitializeCommit(c) ==
    /\ call[c].pc = "read"
    /\ LET menusToAdd == MenusToAdd(ExistingNames(call[c].existingMenus))
       IN  /\ store' = store \o BatchOf(menusToAdd, BaseOrder(call[c].existingMenus), c)
           /\ call' = [call EXCEPT ![c].pc = "done", ![c].added = Len(menusToAdd)]
    /\ probe' = [probe EXCEPT !.ret = TRUE]
    /\ UNCHANGED clock

\* handleInitializeMenus ends; the button can be pressed again.
InitializeEnd(c) ==
    /\ call[c].pc = "done"
    /\ call' = [call EXCEPT ![c] = NoInitialize]
    /\ UNCHANGED <<clock, store, probe>>

NextMenus ==
    \/ \E c \in MenuPages : InitializeGetMenus(c)
    \/ \E c \in MenuPages : InitializeCommit(c)
    \/ \E c \in MenuPages : InitializeEnd(c)

SpecMenus == InitMenus /\ [][NextMenus]_vars

---------------------------------------------------------------------------
(* Properties of the two aggregations (specification Spec).                *)

\* The call c has settled after getDocs resolved.
Aggregated(c) == call[c].pc = "done" /\ call[c].fetch = "ok"

\* The call c returned a statistics object.
Returned(c) == Aggregated(c) /\ call[c].outcome.status = "ok"

\* convertToDate of document i's date while call c ran its loop.
NormalizedDate(c, i) == convertToDate(Workouts[i].date, call[c].at)

\* The documents of the collection whose normalized date is the instant
\* boundary, and those it places inside the window of call c.
DatedAt(c, boundary) == {i \in store : NormalizedDate(c, i) = boundary}
InWindowIds(c) ==
    {i \in store :
        InWindow(NormalizedDate(c, i), call[c].window.start, call[c].window.end)}

\* C1: the weekly aggregation never ends in an error because of a malformed
\* individual record: whenever the fetch succeeded, whatever the records
\* hold (a malformed date, exercises that is no array, a null or non-object
\* entry in exercises, a missing sets field, non-numeric set fields), the
\* call returns a statistics object.
C1_NoErrorFromMalformedRecord ==
    \A c \in CallIds : Aggregated(c) => call[c].outcome.status = "ok"

\* C2: when fetching the records fails, each of the two functions ends in an
\* error and returns no statistics object, partial or otherwise.
C2_FailedFetchPropagates ==
    \A c \in CallIds :
        (call[c].pc = "done" /\ call[c].fetch = "failed") =>
            /\ call[c].outcome.status = "error"
            /\ call[c].outcome.stats = <<>>

\* A fetch failed over a collection that holds documents, and the call
\* ended in an error.
C2_Witness ==
    \E c \in CallIds :
        /\ call[c].pc = "done"
        /\ call[c].fetch = "failed"
        /\ store # {}
        /\ call[c].outcome.status = "error"

\* C6: the window is half-open in both aggregations: every record whose
\* normalized date is exactly the window start is counted, and no record
\* whose normalized date is exactly the exclusive window end is counted.
C6_HalfOpenWindow ==
    \A c \in CallIds :
        Returned(c) =>
            /\ call[c].outcome.stats.count >= Cardinality(DatedAt(c, call[c].window.start))
            /\ call[c].outcome.stats.count
                  <= Cardinality(store) - Cardinality(DatedAt(c, call[c].window.end))

\* A collection of one record dated at the window start and one dated at
\* the window end, of which the call counted one.
C6_Witness ==
    \E c \in CallIds :
        /\ Returned(c)
        /\ DatedAt(c, call[c].window.start) # {}
        /\ DatedAt(c, call[c].window.end) # {}
        /\ Cardinality(store) = 2
        /\ call[c].outcome.stats.count = 1

\* The two sources of warmup and cooldown seconds of one workout, each
\* summed on its own: the workout's field, and the sets of the time
\* exercises whose name holds the keyword.
PositivePart(n) == IF n.t = "number" /\ n.n > 0 THEN n.n ELSE 0
ExplicitSeconds(data, kind) ==
    PositivePart(IF kind = "warmup" THEN data.warmupDuration ELSE data.cooldownDuration)
RECURSIVE SetSeconds(_)
SetSeconds(sets) ==
    IF sets = <<>> THEN 0
    ELSE PositivePart(ToNumber(Coalesce(Head(sets).time, Head(sets).duration)))
            + SetSeconds(Tail(sets))
NameOf(exercise) == Coalesce(Coalesce(exercise.menuName, exercise.name), Str(<<>>))
Matches(exercise, kind) ==
    /\ exercise.k = "object"
    /\ resolveMenuType(exercise) = "time"
    /\ NameOf(exercise).t = "string"
    /\ includes(NameOf(exercise).s,
                IF kind = "warmup" THEN WARMUP_KEYWORD ELSE COOLDOWN_KEYWORD)
RECURSIVE MatchedSeconds(_, _)
MatchedSeconds(exercises, kind) ==
    IF exercises = <<>> THEN 0
    ELSE (IF Matches(Head(exercises), kind) THEN SetSeconds(SetsOf(Head(exercises))) ELSE 0)
            + MatchedSeconds(Tail(exercises), kind)
RECURSIVE ReferenceSeconds(_, _)
ReferenceSeconds(ids, kind) ==
    IF ids = {} THEN 0
    ELSE LET i == CHOOSE j \in ids : TRUE
         IN  ExplicitSeconds(Workouts[i], kind)
                + MatchedSeconds(Workouts[i].exercises.items, kind)
                + ReferenceSeconds(ids \ {i}, kind)

OutcomeOn(c, ids) ==
    IF c = "this"
    THEN ThisWeekAfterFetch(QueryDocs(ids), call[c].window, call[c].at)
    ELSE LastWeekAfterFetch(QueryDocs(ids), call[c].window, call[c].at)

\* C10: the result depends only on the in-window records: count is the
\* number of fetched records whose normalized date lies in the window, and
\* a record outside the window, added or removed, changes nothing of what
\* the call gives.
C10_OnlyInWindowRecords ==
    \A c \in CallIds :
        Aggregated(c) =>
            /\ call[c].outcome.status = "ok" =>
                  call[c].outcome.stats.count = Cardinality(InWindowIds(c))
            /\ \A i \in store \ InWindowIds(c) :
                  call[c].outcome = OutcomeOn(c, store \ {i})

\* What call c returns when it alone runs over the collection, from
\* accumulators at zero, with the window and the clock reading it had.
AloneOutcome(c) ==
    IF c = "this"
    THEN Outcome(ThisWeekDocs(ZeroStats, QueryDocs(store), 0, call[c].window.start,
                              call[c].window.end, call[c].at))
    ELSE Outcome(LastWeekDocs(ZeroStats, QueryDocs(store), call[c].window.start,
                              call[c].window.end, call[c].at))

RECURSIVE ExercisesVolume(_, _)
ExercisesVolume(exercises, t) ==
    IF exercises = <<>> THEN 0
    ELSE (IF resolveMenuType(Head(exercises)) = t
          THEN computeVolumeForExercise(Head(exercises)).volume ELSE 0)
            + ExercisesVolume(Tail(exercises), t)
RECURSIVE ReferenceVolume(_, _)
ReferenceVolume(ids, t) ==
    IF ids = {} THEN 0
    ELSE LET i == CHOOSE j \in ids : TRUE
         IN  ExercisesVolume(Workouts[i].exercises.items, t) + ReferenceVolume(ids \ {i}, t)

\* C17: each exercise of an in-window workout adds its computed volume to
\* the one volumeByType bucket of its resolved type: volumeByType[t] is the
\* sum of the volumes of the in-window exercises resolved to t.
C17_VolumeByResolvedType ==
    \A c \in CallIds :
        Returned(c) =>
            \A t \in MENU_TYPE_VALUES :
                call[c].outcome.stats.volumeByType[t] = ReferenceVolume(InWindowIds(c), t)

\* One weight exercise with sets 60 x 10 and 60 x 8: 1080 in the weight
\* bucket, 0 in the others.
C17_Witness ==
    \E c \in CallIds :
        /\ Returned(c)
        /\ InWindowIds(c) = {1}
        /\ call[c].outcome.stats.volumeByType =
              [weight |-> 1080, bodyweight |-> 0, time |-> 0, distance |-> 0]

\* The seconds of the time exercises whose name field holds the keyword,
\* summed over a list of exercises; and, with the explicit field, over the
\* workouts ids.
NameMatches(exercise, kind) ==
    /\ exercise.k = "object"
    /\ resolveMenuType(exercise) = "time"
    /\ exercise.name.t = "string"
    /\ includes(exercise.name.s,
                IF kind = "warmup" THEN WARMUP_KEYWORD ELSE COOLDOWN_KEYWORD)
RECURSIVE NameMatchedSeconds(_, _)
NameMatchedSeconds(exercises, kind) ==
    IF exercises = <<>> THEN 0
    ELSE (IF NameMatches(Head(exercises), kind)
          THEN SetSeconds(SetsOf(Head(exercises))) ELSE 0)
            + NameMatchedSeconds(Tail(exercises), kind)
RECURSIVE ReferenceSecondsByName(_, _)
ReferenceSecondsByName(ids, kind) ==
    IF ids = {} THEN 0
    ELSE LET i == CHOOSE j \in ids : TRUE
         IN  ExplicitSeconds(Workouts[i], kind)
                + NameMatchedSeconds(Workouts[i].exercises.items, kind)
                + ReferenceSecondsByName(ids \ {i}, kind)

\* C18: every exercise of an in-window workout whose resolved type is time
\* and whose name field contains the warmup keyword adds the sum of its
\* positive set seconds to the warmup total, whatever other fields the
\* exercise carries; the same for the cooldown keyword and total.
C18_NamedExercisesCounted ==
    \A c \in CallIds :
        Returned(c) =>
            /\ call[c].outcome.stats.warmupTotalSeconds
                  = ReferenceSecondsByName(InWindowIds(c), "warmup")
            /\ call[c].outcome.stats.cooldownTotalSeconds
                  = ReferenceSecondsByName(InWindowIds(c), "cooldown")

\* C19: the outputs in minutes are the outputs in seconds rounded to
\* minutes: warmupTotal = round(warmupTotalSeconds / 60) and cooldownTotal =
\* round(cooldownTotalSeconds / 60), for every record list.
C19_MinutesAreRoundedSeconds ==
    \A c \in CallIds :
        Returned(c) =>
            /\ call[c].outcome.stats.warmupTotal
                  = RoundMinutes(call[c].outcome.stats.warmupTotalSeconds)
            /\ call[c].outcome.stats.cooldownTotal
                  = RoundMinutes(call[c].outcome.stats.cooldownTotalSeconds)

\* The calendar day number of a date in the fixed UTC+9 local offset.
LocalCalendarDay(date) == MsAdd(TimeOf(date), Ms(0, 9 * MsPerHour)).d

\* C20: uniqueDays is the number of distinct calendar days, taken in the
\* fixed UTC+9 local offset, among the dates of the in-window records: two
\* in-window workouts on the same UTC+9 day count as one day, two on
\* different UTC+9 days count as two.
C20_UniqueDaysAreLocalDays ==
    \A c \in CallIds :
        Returned(c) =>
            call[c].outcome.stats.uniqueDays
                = Cardinality({LocalCalendarDay(NormalizedDate(c, i)) :
                                   i \in InWindowIds(c)})

\* The documents whose date is a string that new Date cannot parse.
UnparseableStringIds ==
    {i \in WorkoutIds :
        Workouts[i].date.k = "string" /\ ~DateParse(Workouts[i].date.str).valid}

\* C23: a record whose date is an unparseable string is normalized to the
\* current instant and is not counted by getLastWeeksStats: it lies outside
\* the window, and every output is what it is without the record.
C23_LastWeekSkipsUnparseable ==
    Aggregated("last") =>
        /\ \A i \in store \cap UnparseableStringIds :
              /\ NormalizedDate("last", i) = call["last"].at
              /\ i \notin InWindowIds("last")
        /\ call["last"].outcome = OutcomeOn("last", store \ UnparseableStringIds)

\* getLastWeeksStats returned a week with a counted workout while the
\* collection held a record with an unparseable date string.
C23_Witness ==
    /\ Returned("last")
    /\ store \cap UnparseableStringIds # {}
    /\ call["last"].outcome.stats.count >= 1
    /\ call["last"].outcome.stats.totalVolume > 0

\* The documents whose date cannot be parsed and reaches the fallback of
\* convertToDate: null or undefined, a string that new Date cannot parse, a
\* number that gives no Date.
FallbackDate(ts) ==
    \/ ts.k \in {"null", "undefined"}
    \/ ts.k = "string" /\ ~DateParse(ts.str).valid
    \/ ts.k = "number" /\ ~NumberToDate(ts.num).valid
FallbackDateIds == {i \in WorkoutIds : FallbackDate(Workouts[i].date)}

\* The clock stayed in one week between the start of call c and its loop.
SameWeekThroughout(c) == call[c].window = ThisWeekWindow(call[c].at)

\* What the statistics with hold of document i beyond the statistics
\* without: one workout, its totalVolume, its day, its exercises' volumes
\* by type and its warmup and cooldown seconds.
AttributedTo(with, without, i) ==
    /\ with.count = without.count + 1
    /\ with.totalVolume = without.totalVolume + Coalesce(Workouts[i].totalVolume, Num(0)).n
    /\ with.uniqueDays >= 1
    /\ with.uniqueDays \in {without.uniqueDays, without.uniqueDays + 1}
    /\ with.uniqueExercises >= without.uniqueExercises
    /\ \A t \in MENU_TYPE_VALUES :
          with.volumeByType[t]
              = without.volumeByType[t] + ExercisesVolume(Workouts[i].exercises.items, t)
    /\ with.warmupTotalSeconds
          = without.warmupTotalSeconds + ReferenceSeconds({i}, "warmup")
    /\ with.cooldownTotalSeconds
          = without.cooldownTotalSeconds + ReferenceSeconds({i}, "cooldown")

Parseable(ts) == convertToDate(ts, InvalidDate).valid
ParseableIds == {i \in WorkoutIds : Parseable(Workouts[i].date)}

\* getLastWeeksStats ran at one clock reading over records whose dates are
\* all parseable.
LastWeekRanAtOnce ==
    /\ Aggregated("last")
    /\ call["last"].window = LastWeekWindow(call["last"].at)
    /\ store \subseteq ParseableIds

\* getThisWeeksStats seven days before now over the documents ids.
ThisWeekSevenDaysBefore(ids, now) ==
    ThisWeekAfterFetch(QueryDocs(ids), ThisWeekWindow(ShiftUTCDate(now, -7)),
                       ShiftUTCDate(now, -7))

\* C26: getLastWeeksStats at time now returns what getThisWeeksStats returns
\* at now - 7 days over the same fetched records, for every record list
\* whose dates are all parseable: the same fold, another window.
C26_LastWeekIsThisWeekShifted ==
    LastWeekRanAtOnce =>
        call["last"].outcome = ThisWeekSevenDaysBefore(store, call["last"].at)

\* Both sides hold the workouts of Monday 2026-10-26 and of Wednesday
\* 2026-10-28, seen from Wednesday 2026-11-04.
C26_Witness ==
    /\ LastWeekRanAtOnce
    /\ call["last"].at = UTC(2026, 11, 4, 20, 0, 0, 0)
    /\ {3, 9} \subseteq store
    /\ Returned("last")
    /\ call["last"].outcome.stats.count >= 2
    /\ ThisWeekSevenDaysBefore(store, call["last"].at).stats.count >= 2

---------------------------------------------------------------------------
(* Properties of the loop (specification SpecFold).                        *)

\* The loop of a call is under way.
Folding == probe.fn \in CallIds

\* The running totals that only grow: the four volumes and the two totals
\* in seconds.
TotalsNonNegative(a) ==
    /\ \A t \in MENU_TYPE_VALUES : a.volumeByType[t] >= 0
    /\ a.warmupTotalSeconds >= 0
    /\ a.cooldownTotalSeconds >= 0
TotalsNotBelow(a, b) ==
    /\ \A t \in MENU_TYPE_VALUES : a.volumeByType[t] >= b.volumeByType[t]
    /\ a.warmupTotalSeconds >= b.warmupTotalSeconds
    /\ a.cooldownTotalSeconds >= b.cooldownTotalSeconds

\* C11: at every step of the loop every volumeByType entry and the warmup
\* and cooldown totals in seconds are non-negative, and none of them
\* decreases when a further record is processed (negative, missing,
\* non-numeric and non-finite set values add 0).
C11_TotalsNeverDecrease ==
    /\ [](Folding => TotalsNonNegative(probe.ret))
    /\ [][(Folding /\ probe'.fn = probe.fn)
            => TotalsNotBelow(probe'.ret, probe.ret)]_vars

\* The record with negative fields and sets was processed inside the
\* window and added nothing.
C11_Witness ==
    /\ Folding
    /\ probe.arg.index >= 1
    /\ probe.arg.docs[probe.arg.index].id = 13
    /\ probe.ret.count >= 1
    /\ probe.ret.thrown = ""
    /\ TotalsNonNegative(probe.ret)

---------------------------------------------------------------------------
(* Properties of repeated runs (specification SpecRepeat).                 *)

\* Both runs are over, at the same clock reading.
RanTwiceAtOnce ==
    /\ probe.fn \in CallIds
    /\ Len(probe.ret) = 2
    /\ probe.ret[1].at = probe.ret[2].at

---------------------------------------------------------------------------
(* Properties of convertToDate (specification SpecConvertToDate).          *)

\* C3: convertToDate always returns a valid point in time, and for every
\* input that denotes no instant (null, undefined, an unparseable string, a
\* NaN or infinite number, a map whose seconds is not numeric, an object
\* whose toDate yields an Invalid Date) the current instant at the call.
C3_AlwaysValidFallbackNow ==
    probe.fn = "convertToDate" =>
        /\ probe.ret.valid
        /\ probe.arg \in Unconvertible => probe.ret = probe.now

\* C4: each accepted encoding of an instant (a native Date, an epoch number
\* in seconds or milliseconds, an ISO string, a store Timestamp)
\* normalizes to that instant.
C4_EncodingsAgree ==
    probe.fn = "convertToDate" =>
        \A d \in Instants : probe.arg \in Encodings(d) => probe.ret = d

\* |n| < 10,000,000,000 for a number n.
MagnitudeBelowThreshold(n) ==
    MsLess(n, SecondsThreshold) /\ MsLess(MsNeg(SecondsThreshold), n)

\* C22: convertToDate of a number n takes n as epoch seconds (times 1000)
\* exactly when |n| is below 10,000,000,000, and as epoch milliseconds
\* otherwise, for every finite n, positive or negative.
C22_SecondsBelowMagnitude ==
    (/\ probe.fn = "convertToDate"
     /\ probe.arg.k = "number"
     /\ probe.arg.num.t = "number") =>
        probe.ret = IF MagnitudeBelowThreshold(probe.arg.num.v)
                    THEN NewDate(MsTimes1000(probe.arg.num.v))
                    ELSE NewDate(probe.arg.num.v)

---------------------------------------------------------------------------
(* Properties of getStartOfWeekJST (specification SpecStartOfWeek).        *)

\* UTC+9 as milliseconds.
JstOffset == 9 * MsPerHour

\* The day number of the Monday on or before a day number.
MondayOnOrBefore(day) == day - ((day + 3) % 7)

\* The UTC+9 calendar day number of an instant, and the Monday of the
\* UTC+9 week that holds it.
JstDay(date) == MsAdd(TimeOf(date), Ms(0, JstOffset)).d
JstMonday(date) == MondayOnOrBefore(JstDay(date))

\* Monday 00:00:00 at UTC+9 of that week as an instant, and the same
\* calendar reading written in UTC fields.
JstWeekStart(date) == NewDate(Ms(JstMonday(date), -JstOffset))
JstWeekStartAsUtcFields(date) == NewDate(Ms(JstMonday(date), 0))

\* C5: for every instant x, getStartOfWeekJST(x) is the Monday 00:00:00
\* boundary at UTC+9 of the UTC+9 week that holds x (as an instant, or as
\* that calendar reading), also when the UTC day of x differs from its
\* UTC+9 day.
C5_StartOfWeekIsJstMonday ==
    probe.fn = "getStartOfWeekJST" =>
        probe.ret \in {JstWeekStart(probe.arg), JstWeekStartAsUtcFields(probe.arg)}

\* C12: week-boundary idempotence: for every instant x,
\* getStartOfWeekJST(getStartOfWeekJST(x)) is getStartOfWeekJST(x), also
\* when the Monday falls in the previous month or year.
C12_StartOfWeekIdempotent ==
    probe.fn = "getStartOfWeekJST" => getStartOfWeekJST(probe.ret) = probe.ret

\* Friday 2027-01-01: the Monday is 2026-12-28, and applying the function
\* to it gives it again.
C12_Witness ==
    /\ probe.fn = "getStartOfWeekJST"
    /\ probe.arg = UTC(2027, 1, 1, 20, 0, 0, 0)
    /\ probe.ret = UTC(2026, 12, 28, 0, 0, 0, 0)
    /\ getStartOfWeekJST(probe.ret) = probe.ret

---------------------------------------------------------------------------
(* Properties of resolveMenuType and computeVolumeForExercise              *)
(* (specification SpecExercise).                                           *)

\* C7: resolveMenuType returns the declared menuType unchanged whenever it
\* is one of weight, bodyweight, time, distance, whatever the sets and the
\* legacy type tag hold.
C7_DeclaredTypeWins ==
    (probe.fn = "resolveMenuType" /\ probe.arg.menuType \in MENU_TYPE_VALUES) =>
        probe.ret = probe.arg.menuType

\* Declared weight with a set of positive distance resolved to weight.
C7_Witness ==
    /\ probe.fn = "resolveMenuType"
    /\ probe.arg.menuType = "weight"
    /\ probe.arg.sets = ArrayOf(<<S_distance5>>)
    /\ probe.ret = "weight"

\* weight x reps of one set when both are numeric and strictly positive,
\* otherwise 0; and its sum over the sets.
SetWeightVolume(set) ==
    PositivePart(ToNumber(set.weight)) * PositivePart(ToNumber(set.reps))
RECURSIVE ReferenceWeightVolume(_)
ReferenceWeightVolume(sets) ==
    IF sets = <<>> THEN 0
    ELSE SetWeightVolume(Head(sets)) + ReferenceWeightVolume(Tail(sets))

\* C8: for an exercise resolved to weight, computeVolumeForExercise returns
\* the sum of weight x reps over the sets where both are strictly positive;
\* every other set (weight <= 0, reps <= 0, a field missing or non-numeric)
\* contributes exactly 0.
C8_WeightVolume ==
    (probe.fn = "computeVolumeForExercise" /\ probe.ret.type = "weight") =>
        probe.ret.volume = ReferenceWeightVolume(SetsOf(probe.arg))

\* {weight: 10, reps: 0} and {weight: 10, reps: 5} give 50.
C8_Witness ==
    /\ probe.fn = "computeVolumeForExercise"
    /\ probe.ret.type = "weight"
    /\ probe.arg.sets =
          ArrayOf(<<SetOf(Num(10), Num(0), Undefined, Undefined, Undefined),
                    SetOf(Num(10), Num(5), Undefined, Undefined, Undefined)>>)
    /\ probe.ret.volume = 50

\* A field of a set holds a strictly positive number.
IsPositive(v) == PositivePart(ToNumber(v)) > 0

\* The type that the order of the rules gives an exercise without a valid
\* declared type.  The duration of a set is its field duration, or its
\* alias time when duration is absent.
ExpectedType(type, sets) ==
    IF \E i \in 1..Len(sets) : IsPositive(sets[i].distance) THEN "distance"
    ELSE IF type = "time" THEN "time"
    ELSE IF \/ \E i \in 1..Len(sets) : IsPositive(sets[i].weight) /\ IsPositive(sets[i].reps)
            \/ type = "weight"
    THEN "weight"
    ELSE IF \E i \in 1..Len(sets) : IsPositive(Coalesce(sets[i].duration, sets[i].time))
    THEN "time"
    ELSE "bodyweight"

\* C15: without a valid declared type, resolveMenuType returns the first
\* match in this order: a set with positive distance -> distance; legacy
\* tag time -> time; a set with positive weight and positive reps, or legacy
\* tag weight -> weight; a set with a positive duration/time value -> time;
\* otherwise bodyweight.  Every record resolves to one of the four types.
C15_InferenceOrder ==
    probe.fn = "resolveMenuType" =>
        /\ probe.ret \in MENU_TYPE_VALUES
        /\ probe.arg.menuType \notin MENU_TYPE_VALUES =>
              probe.ret = ExpectedType(probe.arg.type, SetsOf(probe.arg))

\* The legacy tag time with a set of positive weight and reps resolved to
\* time.
C15_Witness ==
    /\ probe.fn = "resolveMenuType"
    /\ probe.arg.menuType = "cardio"
    /\ probe.arg.type = "time"
    /\ probe.arg.sets = ArrayOf(<<SetOf(Num(10), Num(5), Undefined, Undefined, Undefined)>>)
    /\ probe.ret = "time"

\* What one set adds for a type other than weight: its positive reps, its
\* positive duration in seconds (the field duration, or its alias time when
\* duration is absent), or its positive distance.
SetAmount(type, set) ==
    CASE type = "bodyweight" -> PositivePart(ToNumber(set.reps))
      [] type = "time" -> PositivePart(ToNumber(Coalesce(set.duration, set.time)))
      [] type = "distance" -> PositivePart(ToNumber(set.distance))
      [] OTHER -> 0
RECURSIVE ReferenceAmount(_, _)
ReferenceAmount(type, sets) ==
    IF sets = <<>> THEN 0
    ELSE SetAmount(type, Head(sets)) + ReferenceAmount(type, Tail(sets))

\* C16: for an exercise resolved to bodyweight, time or distance,
\* computeVolumeForExercise returns the sum of the positive reps, of the
\* positive set durations in seconds (field duration, or its alias time), or
\* of the positive distances; the fields of another type change nothing.
C16_OtherVolumes ==
    (probe.fn = "computeVolumeForExercise"
        /\ probe.ret.type \in {"bodyweight", "time", "distance"}) =>
        probe.ret.volume = ReferenceAmount(probe.ret.type, SetsOf(probe.arg))

\* The exercise declares no type, carries no legacy tag, and none of its
\* sets has a positive distance, weight or reps.
OnlySecondsLeft(exercise) ==
    /\ exercise.menuType \notin MENU_TYPE_VALUES
    /\ exercise.type \notin {"time", "weight"}
    /\ \A i \in 1..Len(SetsOf(exercise)) :
          /\ ~IsPositive(SetsOf(exercise)[i].distance)
          /\ ~IsPositive(SetsOf(exercise)[i].weight)
          /\ ~IsPositive(SetsOf(exercise)[i].reps)

\* C25: the resolver and the volume calculator agree on the duration alias:
\* when resolveMenuType infers time because a set has a positive
\* duration/time value, computeVolumeForExercise returns a strictly positive
\* time volume; and when a set of an exercise with no declared type, no
\* legacy tag and no positive distance, weight or reps would add positive
\* seconds to a time volume, the exercise resolves to time, also when one of
\* the two alias fields is 0 and the other positive.
C25_AliasAgreement ==
    probe.fn = "computeVolumeForExercise" =>
        /\ (/\ probe.arg.menuType \notin MENU_TYPE_VALUES
            /\ probe.arg.type # "time"
            /\ probe.ret.type = "time") => probe.ret.volume > 0
        /\ (/\ OnlySecondsLeft(probe.arg)
            /\ \E i \in 1..Len(SetsOf(probe.arg)) :
                  VolumeStep("time", 0, SetsOf(probe.arg)[i]) > 0)
              => probe.ret.type = "time"

---------------------------------------------------------------------------
(* Properties of the two windows (specification SpecStartOfWeek).          *)

\* Both windows of one clock reading were computed.
WindowsComputed == probe.fn = "windows"

\* The window w is [from, from + 7 days).
SevenDaysFrom(w, from) ==
    /\ w.start.valid /\ w.end.valid
    /\ w.start = from
    /\ TimeOf(w.end) = MsAdd(TimeOf(w.start), [d |-> 7, ms |-> 0])

\* C21: for one value of now and S = getStartOfWeekJST(now), the this-week
\* window is [S, S + 7 days) and the last-week window is [S - 7 days, S):
\* each is exactly 7 days long and the two are adjacent and disjoint, also
\* across a month or year boundary; no date lies in both windows and every
\* date in [S - 7 days, S + 7 days) lies in exactly one.
C21_AdjacentWeekWindows ==
    WindowsComputed =>
        /\ SevenDaysFrom(probe.ret.this, getStartOfWeekJST(probe.arg))
        /\ SevenDaysFrom(probe.ret.last, probe.ret.last.start)
        /\ probe.ret.last.end = getStartOfWeekJST(probe.arg)
        /\ \A date \in WeekInstants :
              /\ ~(/\ InWindow(date, probe.ret.this.start, probe.ret.this.end)
                   /\ InWindow(date, probe.ret.last.start, probe.ret.last.end))
              /\ (DateGeq(date, probe.ret.last.start) /\ DateLess(date, probe.ret.this.end))
                    => (\/ InWindow(date, probe.ret.this.start, probe.ret.this.end)
                        \/ InWindow(date, probe.ret.last.start, probe.ret.last.end))

\* The windows of the week of Monday 2026-12-28: the this-week window ends
\* in the next year, and an instant of the week lies in it alone.
C21_Witness ==
    /\ WindowsComputed
    /\ probe.ret.this.start = UTC(2026, 12, 28, 0, 0, 0, 0)
    /\ probe.ret.this.end = UTC(2027, 1, 4, 0, 0, 0, 0)
    /\ probe.ret.last.start = UTC(2026, 12, 21, 0, 0, 0, 0)
    /\ \E date \in WeekInstants :
          /\ InWindow(date, probe.ret.this.start, probe.ret.this.end)
          /\ ~InWindow(date, probe.ret.last.start, probe.ret.last.end)

---------------------------------------------------------------------------
(* Properties of one load of the dashboard (specification SpecLoad).       *)

\* The workouts that the result of call c counts: those it fetched whose
\* normalized date lies in its window, when it returned statistics.
CountedBy(c) ==
    IF Returned(c)
    THEN {i \in probe.arg[c] :
            InWindow(NormalizedDate(c, i), call[c].window.start, call[c].window.end)}
    ELSE {}

\* C27: in one dashboard load, where getThisWeeksStats and getLastWeeksStats
\* are started together and each reads the clock and fetches the records on
\* its own, no workout is counted in both the this-week result and the
\* last-week result, for every interleaving of clock ticks (also across the
\* Monday 00:00 boundary) and of store updates with the two calls.
C27_NoWorkoutInBothWeeks ==
    (probe.fn = "fetchData" /\ Returned("this") /\ Returned("last")) =>
        /\ CountedBy("this") \cap CountedBy("last") = {}
        /\ call["this"].outcome.stats.count = Cardinality(CountedBy("this"))
        /\ call["last"].outcome.stats.count = Cardinality(CountedBy("last"))

---------------------------------------------------------------------------
(* Properties of the share links (specification SpecShare).                *)

\* A verifyShare has resolved.
Verified == call.pc = "done"

\* C28: verifyShare(shareId, password) returns a share record only if the
\* stored share exists, is active, its stored password equals the supplied
\* one and its expiresAt is not before the current time; and once
\* deactivateShare(shareId) has completed, every later verifyShare for that
\* shareId returns null, whatever password is supplied.
C28_VerifyOnlyActiveShares ==
    Verified =>
        /\ call.result.returned =>
              /\ call.snapshot.exists
              /\ Boolean(call.snapshot.isActive)
              /\ call.snapshot.password = call.password
              /\ ~DateLess(call.result.share.expiresAt, call.at)
        /\ call.late => ~call.result.returned

\* C29: acceptance of a share is bounded in time: for every stored share
\* document there is a fixed instant, at most 30 days after its creation,
\* after which verifyShare with the correct password returns null on every
\* later call, whatever the stored expiresAt holds (also a missing or
\* unparseable value); the effective expiry never moves later.
C29_AcceptanceEnds ==
    (/\ Verified
     /\ call.snapshot.exists
     /\ DateLess(NewDate(MsAdd(TimeOf(toDateSafe(call.snapshot.createdAt)),
                               SHARE_DURATION_MS)),
                 call.at)) =>
        ~call.result.returned

---------------------------------------------------------------------------
(* Properties of the default menus (specification SpecMenus).              *)

\* The positions of the collection, and those written by the calls.
Stored == 1..Len(store)
WrittenByCalls == {i \in Stored : store[i].by # ""}
DefaultNames == {DEFAULT_MENUS[k] : k \in 1..Len(DEFAULT_MENUS)}

\* C30: after any number of initializeDefaultMenus calls for one user, also
\* calls that interleave between their read of the existing menus and their
\* batch write, each default menu name appears at most once among the
\* user's menus, no two menus written by these calls share an order value,
\* and a call made after another has completed adds nothing.
C30_DefaultMenusOnce ==
    /\ \A name \in DefaultNames :
          Cardinality({i \in Stored : store[i].name = name}) <= 1
    /\ \A i \in WrittenByCalls : \A j \in WrittenByCalls :
          i # j => store[i].order # store[j].order
    /\ \A c \in MenuPages :
          (call[c].pc = "done" /\ call[c].after) => call[c].added = 0

==========================================================================
